---- MODULE Spec2Model ----
(***************************************************************************)
(* A model of the evaluator runtime of the r3 (Ren-C) interpreter.         *)
(*                                                                         *)
(* The module holds several state machines that share one set of           *)
(* variables; each has its own specification:                              *)
(*                                                                         *)
(*   SpecStack  the level (frame) stack and the data stack, as driven by   *)
(*              Do_Feed_To_End_Throws, Do_Path_Throws_Core, the action     *)
(*              test of Typecheck_Value, the LAMBDA native's spec walk and *)
(*              the LET native's block walk.                               *)
(*   SpecMerge  specifier chains (LET and USE nodes) as built by           *)
(*              ADD-LET-BINDING and ADD-USE-OBJECT, merged by              *)
(*              Merge_Patches_May_Reuse and walked by Get_Word_Container.  *)
(*   SpecBind   one word cell resolved by Get_Word_Container, with the     *)
(*              caching into the cell and the attaching of module          *)
(*              variables that the lookup itself does.                     *)
(*   SpecLet    a feed evaluated step by step, with the LET native's       *)
(*              two states (initial entry, evaluation step).               *)
(*   SpecHijack action identities made by FUNC, COPY and ADAPT, rewritten  *)
(*              by the HIJACK native and run through their dispatchers.    *)
(*   SpecPath   the pushes and drops of a path's refinements.              *)
(*   SpecCheck  Typecheck_Value's answers and the coercion of an argument  *)
(*              by Typecheck_Coerce_Argument.                              *)
(*   SpecFile   the file port actor's READ and WRITE on one file.          *)
(*   SpecRename the file port actor's RENAME on a port open or closed.     *)
(*   SpecPort   the file port actor's SKIP, HEAD, TAIL and LENGTH on a     *)
(*              port open or closed.                                       *)
(*   SpecLoop   the variables of a loop, bound by                          *)
(*              Virtual_Bind_Deep_To_New_Context and written on each pass. *)
(*   SpecReuse  merges of a chain with a chain that is part of it.         *)
(*   SpecBinder the binder of Virtual_Bind_Deep_To_New_Context, item by    *)
(*              item, with the dummy keys of BLANK! items.                 *)
(*   SpecParallel  FOR-PARALLEL of the loop tests: a LAMBDA whose body is  *)
(*              one WHILE over two blocks.                                 *)
(***************************************************************************)
EXTENDS Integers, Sequences, FiniteSets, TLC

VARIABLES
    levels,       \* the level stack (TG_Frame_Stack), bottom first
    dstack,       \* the data stack, bottom first
    fn,           \* the routine that is running: "none" before the call
    pc,           \* where that routine is
    items,        \* what the routine still has to walk (feed, path, spec)
    out,          \* the routine's output cell (the kind of value in it)
    mark,         \* dsp_orig / base: the data stack depth the routine saved
    opt,          \* the call's parameters and the routine's local flags
    npush,        \* how many levels the routine has pushed
    entryLevels,  \* the level stack when the routine was entered
    entryDstack,  \* the data stack when the routine was entered
    heap,         \* the stubs: LET, USE and module variable PATCH nodes
    specX,        \* a specifier: the outer chain (a feed's binding)
    specY,        \* a specifier: the inner chain
    merged,       \* the last merge done: parent, child and result
    word,         \* a word cell of some array
    named,        \* the binding that cell was made with
    look,         \* what the last lookups of the cell gave
    lstack,       \* the levels of the feed's evaluation, bottom first
    val,          \* the evaluator's output cell
    step,         \* what the evaluator does next
    nfetch,       \* how many items of the feed were taken
    lastRead,     \* the container the last word evaluated was read from
    lastLet,      \* what the last LET that ended its evaluation step did
    scene,        \* how much of `let a: 10, a + 5` the feed has been so far
    outer,        \* the enclosing feed's specifier: where this feed began
    acts,         \* the action identities, in the order they were made
    nhijack,      \* how many hijacks were done
    saved,        \* the actions as they were when a saved copy was in use
    pvs,          \* the path walk's frame: position, out cell, deferred
    memory,       \* the cells a path can refer to: variables and slots
    tc,           \* the type check in progress: tests, argument, verdict
    filereq,      \* the file port's state: handle, offset, flags
    disk,         \* the file itself: size, descriptor position, last call
    fs,           \* a port over named files: names, files, descriptor
    loop,         \* a loop over data: its variables' context and its body
    par,          \* a call of FOR-PARALLEL: its blocks, variables and result
    vb            \* a call of Virtual_Bind_Deep_To_New_Context: its binder

stackVars ==
    <<levels, dstack, fn, pc, items, out, mark, opt, npush,
      entryLevels, entryDstack>>

bindVars == <<heap, specX, specY, merged, word, named, look>>

letVars == <<lstack, val, step, nfetch, lastRead, lastLet, scene, outer>>

hijackVars == <<acts, nhijack, saved>>

pathVars == <<pvs, memory>>

checkVars == <<tc>>

fileVars == <<filereq, disk, fs>>

loopVars == <<loop, par, vb>>

moreVars == <<pathVars, checkVars, fileVars, loopVars>>

vars == <<stackVars, bindVars, letVars, hijackVars, moreVars>>

-----------------------------------------------------------------------------
(* Bounds of the model.                                                    *)

MaxOuter == 1      \* levels / stack cells the caller already has
MaxFeed == 2       \* values in a feed given to Do_Feed_To_End_Throws
MaxPath == 3       \* elements of a path
MaxSpec == 2       \* items of a LAMBDA spec block or a LET block

RECURSIVE SeqsUpTo(_, _)
SeqsUpTo(S, n) ==
    IF n = 0 THEN {<<>>}
    ELSE LET shorter == SeqsUpTo(S, n - 1)
         IN  shorter \cup
             {Append(s, x) : s \in {t \in shorter : Len(t) = n - 1}, x \in S}

Front(s) == SubSeq(s, 1, Len(s) - 1)

NoOpt ==
    [kind |-> "none", setval |-> FALSE, pushflag |-> FALSE, nogroups |-> FALSE,
     isblock |-> FALSE, optimizable |-> TRUE, altered |-> FALSE,
     match_all |-> FALSE, len |-> 0]

Done == pc \in {"returned", "threw", "failed"}

-----------------------------------------------------------------------------
(* Level and data stack primitives.                                        *)

Push_Frame(l) == levels' = Append(levels, l) /\ npush' = npush + 1

Drop_Frame == levels' = Front(levels) /\ UNCHANGED npush

Abort_Frame == levels' = Front(levels) /\ UNCHANGED npush

DS_PUSH(cells) == dstack' = dstack \o cells

DS_DROP_TO(dsp) == dstack' = SubSeq(dstack, 1, dsp)

\* fail (...): the longjmp to the enclosing trap, which aborts every level
\* above the one it saved and drops the data stack to the depth it saved.
\* The caller set the trap just before the call.
Fail_Core ==
    /\ levels' = entryLevels
    /\ dstack' = entryDstack
    /\ pc' = "failed"
    /\ UNCHANGED <<fn, items, out, mark, opt, npush, entryLevels, entryDstack>>

Enter(f) ==
    /\ fn = "none"
    /\ fn' = f
    /\ entryLevels' = levels
    /\ entryDstack' = dstack

-----------------------------------------------------------------------------
(* Do_Feed_To_End_Throws                                                   *)

Do_Feed_To_End_Throws(n) ==
    /\ Enter("feed")
    /\ Push_Frame("f")
    /\ items' = [i \in 1..n |-> "value"]
    /\ pc' = "loop"
    /\ UNCHANGED <<dstack, out, mark, opt>>

\* Trampoline_Throws(f) returned true: Abort_Frame(f); return true
Feed_ThrewNoAbort ==
    /\ pc' = "threw"
    /\ UNCHANGED <<levels, dstack, fn, items, out, mark, opt, npush,
                   entryLevels, entryDstack>>

Feed_Threw ==
    /\ Abort_Frame
    /\ pc' = "threw"
    /\ UNCHANGED <<dstack, fn, items, out, mark, opt, entryLevels, entryDstack>>

\* Trampoline_Throws(f) returned false: loop while the feed is not at its
\* end, then Drop_Frame(f); return false
Feed_Stepped ==
    LET rest == IF items = <<>> THEN <<>> ELSE Tail(items)
    IN  /\ items' = rest
        /\ out' = "value"
        /\ IF rest = <<>>
              THEN Drop_Frame /\ pc' = "returned"
              ELSE UNCHANGED <<levels, npush, pc>>
        /\ UNCHANGED <<dstack, fn, mark, opt, entryLevels, entryDstack>>

Feed_Step ==
    /\ fn = "feed" /\ pc = "loop"
    /\ \/ Feed_Threw
       \/ Feed_Stepped
       \/ Fail_Core

-----------------------------------------------------------------------------
(* Do_Path_Throws_Core and Next_Path_Throws                                *)

PathKinds == {"path", "setpath", "getpath"}

\* What a path element is, as far as the walk cares.
ElemKinds == {"inert", "word", "getword", "group"}

\* What a lookup, a GROUP! or a dispatcher can leave in pvs->out.
OutKinds == {"action", "value", "null"}

\* The routine without its test of the head: a frame is pushed for every
\* path
Do_Path_Throws_Core_No_Inert(kind, path, setval, pushflag, nogroups) ==
    /\ Enter("path")
    /\ (kind = "setpath") = setval
    /\ opt' = [NoOpt EXCEPT !.kind = kind, !.setval = setval,
                            !.pushflag = pushflag, !.nogroups = nogroups,
                            !.len = Len(path)]
    /\ items' = path
    /\ mark' = Len(dstack)
    /\ out' = "end"
    /\ Push_Frame("pvs")
    /\ pc' = IF path = <<>> THEN "empty" ELSE "head"
    /\ UNCHANGED dstack

Do_Path_Throws_Core(kind, path, setval, pushflag, nogroups) ==
    /\ Enter("path")
    /\ (kind = "setpath") = setval
    /\ opt' = [NoOpt EXCEPT !.kind = kind, !.setval = setval,
                            !.pushflag = pushflag, !.nogroups = nogroups,
                            !.len = Len(path)]
    /\ items' = path
    /\ mark' = Len(dstack)
    /\ IF path # <<>> /\ path[1] = "inert"
          THEN \* ANY_INERT head: no frame is pushed
               /\ IF kind # "path"
                     THEN /\ pc' = "failed"
                          /\ out' = "end"
                          /\ UNCHANGED <<levels, dstack, npush>>
                     ELSE \* Init_Any_Array_At(out, REB_PATH, array, index)
                          /\ pc' = "returned"
                          /\ out' = "path"
                          /\ UNCHANGED <<levels, dstack, npush>>
          ELSE /\ Push_Frame("pvs")
               /\ out' = "end"
               /\ pc' = IF path = <<>> THEN "empty" ELSE "head"
               /\ UNCHANGED dstack

\* if (FRM_AT_END(pvs)) fail ("Cannot dispatch empty path")
Path_Empty ==
    /\ fn = "path" /\ pc = "empty"
    /\ Fail_Core

Path_AfterStep(o) ==
    /\ out' = o
    /\ items' = Tail(items)
    /\ pc' = IF Tail(items) = <<>> THEN "finish" ELSE "next"

return_thrownNoAbort ==
    /\ pc' = "threw"
    /\ out' = "thrown"
    /\ UNCHANGED <<levels, npush, dstack, fn, items, mark, opt,
                   entryLevels, entryDstack>>

return_thrown ==
    /\ Abort_Frame
    /\ pc' = "threw"
    /\ out' = "thrown"
    /\ UNCHANGED <<dstack, fn, items, mark, opt, entryLevels, entryDstack>>

\* Seed the walk from the first element.
Path_Head ==
    /\ fn = "path" /\ pc = "head"
    /\ LET head == items[1]
       IN  \/ /\ head = "word"
              /\ \E o \in OutKinds :
                    IF o = "null"
                       THEN Fail_Core  \* Error_No_Value
                       ELSE /\ Path_AfterStep(o)
                            /\ UNCHANGED <<levels, npush, dstack, fn, mark, opt,
                                           entryLevels, entryDstack>>
           \/ /\ head = "word"
              /\ Fail_Core  \* Get_Mutable_Var_May_Fail
           \/ /\ head = "group"
              /\ IF opt.nogroups
                    THEN Fail_Core
                    ELSE \/ return_thrown
                         \/ \E o \in OutKinds :
                               IF o = "null"
                                  THEN Fail_Core
                                  ELSE /\ Path_AfterStep(o)
                                       /\ UNCHANGED <<levels, npush, dstack, fn,
                                                      mark, opt, entryLevels,
                                                      entryDstack>>
           \/ /\ head \notin {"word", "group"}
              /\ Path_AfterStep("value")
              /\ UNCHANGED <<levels, npush, dstack, fn, mark, opt,
                             entryLevels, entryDstack>>

\* The ACTION! path dispatcher: a refinement is pushed to the data stack and
\* pvs->out keeps the action.
PD_ActionNoPush ==
    /\ Path_AfterStep("action")
    /\ UNCHANGED <<levels, npush, dstack, fn, mark, opt,
                   entryLevels, entryDstack>>

PD_Action ==
    /\ DS_PUSH(<<"refinement">>)
    /\ Path_AfterStep("action")
    /\ UNCHANGED <<levels, npush, fn, mark, opt, entryLevels, entryDstack>>

\* One call of Next_Path_Throws, after the picker has been computed.
Path_Dispatch ==
    LET last == Tail(items) = <<>>
    IN  IF last /\ opt.kind = "setpath"
           THEN \* the dispatcher is given the value to set
                IF out = "action"
                   THEN \* PD_Action returns pvs->out: "temporary value"
                        Fail_Core
                   ELSE \/ /\ Path_AfterStep("value")  \* invisible,
                           /\ UNCHANGED <<levels, npush, dstack, fn, mark, opt,
                                          entryLevels, entryDstack>>
                        \/ Fail_Core  \* unhandled, no deferred, temporary
           ELSE IF out = "action"
                   THEN PD_Action
                   ELSE \/ \E o \in {"action", "value"} :
                              /\ Path_AfterStep(o)
                              /\ UNCHANGED <<levels, npush, dstack, fn, mark,
                                             opt, entryLevels, entryDstack>>
                        \/ Fail_Core   \* unhandled, or null at the next step

Path_Next ==
    /\ fn = "path" /\ pc = "next"
    /\ LET picker == items[1]
       IN  \/ /\ picker = "getword"
              /\ \/ Fail_Core  \* unbound, or null
                 \/ Path_Dispatch
           \/ /\ picker = "group"
              /\ IF opt.nogroups
                    THEN Fail_Core
                    ELSE \/ return_thrown
                         \/ Fail_Core  \* the group gave null
                         \/ Path_Dispatch
           \/ /\ picker \notin {"getword", "group"}
              /\ Path_Dispatch

\* Specialize_Action_Throws: the refinements above dsp_orig are consumed.
Specialize_Action == DS_DROP_TO(mark)

Path_Finish ==
    /\ fn = "path" /\ pc = "finish"
    /\ IF (~opt.setval) /\ Len(dstack) # mark
          THEN IF opt.pushflag
                  THEN UNCHANGED dstack
                  ELSE Specialize_Action
          ELSE UNCHANGED dstack
    /\ Abort_Frame     \* return_not_thrown
    /\ pc' = "returned"
    /\ UNCHANGED <<fn, items, out, mark, opt, entryLevels, entryDstack>>

-----------------------------------------------------------------------------
(* Typecheck_Value: the walk over the tests, as far as the two stacks go.  *)
(* A test that is an action which is no intrinsic is run in a level of its *)
(* own.                                                                    *)

TestKinds == {"action", "intrinsic", "other"}

Typecheck_Value(tests, match_all) ==
    /\ Enter("typecheck")
    /\ items' = tests
    /\ opt' = [NoOpt EXCEPT !.match_all = match_all]
    /\ pc' = IF tests = <<>> THEN "returned" ELSE "test"
    /\ out' = IF tests = <<>> THEN (IF match_all THEN "true" ELSE "false")
              ELSE "end"
    /\ UNCHANGED <<levels, dstack, mark, npush>>

\* test_succeeded / test_failed: return, or go on with the next item
Typecheck_Verdict(ok) ==
    IF ok # opt.match_all
       THEN /\ pc' = "returned"
            /\ out' = IF ok THEN "true" ELSE "false"
            /\ UNCHANGED items
       ELSE /\ items' = Tail(items)
            /\ IF Tail(items) = <<>>
                  THEN /\ pc' = "returned"
                       /\ out' = IF opt.match_all THEN "true" ELSE "false"
                  ELSE /\ pc' = "test"
                       /\ UNCHANGED out

Typecheck_Test ==
    /\ fn = "typecheck" /\ pc = "test"
    /\ \/ /\ items[1] # "action"
          /\ \/ \E ok \in BOOLEAN :
                   /\ Typecheck_Verdict(ok)
                   /\ UNCHANGED <<levels, npush, dstack, fn, mark, opt,
                                  entryLevels, entryDstack>>
             \/ Fail_Core   \* a bad element, an intrinsic that gave no logic
       \/ /\ items[1] = "action"
          /\ \/ Fail_Core   \* Error_No_Arg_Typecheck: nothing was pushed yet
             \/ \* Typecheck_Coerce_Argument refused: Drop_Action(L), and
                \* the level made by Make_End_Level was never pushed
                /\ Typecheck_Verdict(FALSE)
                /\ UNCHANGED <<levels, npush, dstack, fn, mark, opt,
                               entryLevels, entryDstack>>
             \/ /\ Push_Frame("L")     \* Push_Level(spare, L)
                /\ pc' = "run"
                /\ UNCHANGED <<dstack, fn, items, out, mark, opt,
                               entryLevels, entryDstack>>

Typecheck_RanNoDrop(ok) ==
    /\ Typecheck_Verdict(ok)
    /\ UNCHANGED <<levels, npush, dstack, fn, mark, opt,
                   entryLevels, entryDstack>>

\* Drop_Level(L); then the logic in spare decides
Typecheck_Ran(ok) ==
    /\ Drop_Frame
    /\ Typecheck_Verdict(ok)
    /\ UNCHANGED <<dstack, fn, mark, opt, entryLevels, entryDstack>>

Typecheck_Run ==
    /\ fn = "typecheck" /\ pc = "run"
    /\ \/ Fail_Core    \* the trampoline threw: Error_No_Catch_For_Throw
       \/ \E ok \in BOOLEAN : Typecheck_Ran(ok)
       \/ /\ Drop_Frame   \* Drop_Level(L), then Error_No_Logic_Typecheck
          /\ dstack' = entryDstack
          /\ pc' = "failed"
          /\ UNCHANGED <<fn, items, out, mark, opt, entryLevels, entryDstack>>

-----------------------------------------------------------------------------
(* The LAMBDA native: the walk over the spec, which builds the parameter   *)
(* list on the data stack.                                                 *)

LambdaItemKinds ==
    {"word", "metaword", "quotedword", "quotedother", "setreturn", "other"}

lambda(isblock, spec) ==
    /\ Enter("lambda")
    /\ isblock \/ (Len(spec) <= 1 /\
                   \A i \in 1..Len(spec) :
                       spec[i] \in {"word", "metaword", "quotedword",
                                    "quotedother"})
    /\ items' = spec
    /\ opt' = [NoOpt EXCEPT !.isblock = isblock]
    /\ mark' = Len(dstack)
    /\ DS_PUSH(<<"none", "trash", "trash", "null">>)
    /\ pc' = "spec"
    /\ UNCHANGED <<levels, npush, out>>

Lambda_Item ==
    /\ fn = "lambda" /\ pc = "spec" /\ items # <<>>
    /\ LET item == items[1]
       IN  IF item \in {"word", "metaword", "quotedword"}
              THEN /\ DS_PUSH(<<"key", "param", "null", "null">>)
                   /\ items' = Tail(items)
                   /\ UNCHANGED <<levels, npush, fn, pc, out, mark, opt,
                                  entryLevels, entryDstack>>
           ELSE IF item \in {"quotedother", "setreturn"}
              THEN Fail_Core
           ELSE IF ~opt.isblock
              THEN Fail_Core
           ELSE /\ DS_PUSH(<<"item">>)
                /\ opt' = [opt EXCEPT !.optimizable = FALSE]
                /\ items' = Tail(items)
                /\ UNCHANGED <<levels, npush, fn, pc, out, mark,
                               entryLevels, entryDstack>>

\* Pop_Paramlist_With_Meta_May_Fail(&meta, dsp_orig, ...)
Pop_Paramlist == DS_DROP_TO(mark)

Lambda_MakeNoDrop ==
    /\ pc' = "returned"
    /\ out' = "action"
    /\ UNCHANGED <<dstack, levels, npush, fn, items, mark, opt,
                   entryLevels, entryDstack>>

Lambda_Make ==
    /\ IF opt.optimizable THEN Pop_Paramlist ELSE DS_DROP_TO(mark)
    /\ pc' = "returned"
    /\ out' = "action"
    /\ UNCHANGED <<levels, npush, fn, items, mark, opt,
                   entryLevels, entryDstack>>

Lambda_Finish ==
    /\ fn = "lambda" /\ pc = "spec" /\ items = <<>>
    /\ \/ Lambda_Make
       \/ Fail_Core    \* the two makers "May_Fail"

-----------------------------------------------------------------------------
(* The LET native: the walk over a BLOCK! or SET-BLOCK! of variables.      *)

LetItemKinds == {"quoted", "group", "issue", "blank", "word", "other"}

LetBlock(block) ==
    /\ Enter("let")
    /\ items' = block
    /\ mark' = Len(dstack)    \* StackIndex base = TOP_INDEX
    /\ opt' = NoOpt
    /\ pc' = "vars"
    /\ UNCHANGED <<levels, npush, dstack, out>>

Let_Push ==
    /\ DS_PUSH(<<"item">>)
    /\ items' = Tail(items)
    /\ UNCHANGED <<levels, npush, fn, pc, out, mark,
                   entryLevels, entryDstack>>

\* if (Do_Any_Array_At_Throws(OUT, temp, item_specifier)) return THROWN;
Let_GroupThrew ==
    /\ pc' = "threw"
    /\ out' = "thrown"
    /\ UNCHANGED <<dstack, levels, npush, fn, items, mark, opt,
                   entryLevels, entryDstack>>

Let_Item ==
    /\ fn = "let" /\ pc = "vars" /\ items # <<>>
    /\ LET item == items[1]
       IN  \/ /\ item = "quoted"
              /\ Let_Push
              /\ opt' = [opt EXCEPT !.altered = TRUE]
           \/ /\ item = "group"
              /\ \/ Let_GroupThrew
                 \/ Fail_Core   \* the group's product is no word or blank
                 \/ /\ Let_Push
                    /\ opt' = [opt EXCEPT !.altered = TRUE]
           \/ /\ item \in {"issue", "blank", "word"}
              /\ Let_Push
              /\ UNCHANGED opt
           \/ /\ item = "other"
              /\ Fail_Core

Let_StackDoneNoDrop ==
    /\ pc' = "returned"
    /\ out' = "value"
    /\ UNCHANGED <<dstack, levels, npush, fn, items, mark, opt,
                   entryLevels, entryDstack>>

\* Pop_Stack_Values_Core(base, ...) when altered, else
\* Drop_Data_Stack_To(base)
Let_StackDone ==
    /\ DS_DROP_TO(mark)
    /\ pc' = "returned"
    /\ out' = "value"
    /\ UNCHANGED <<levels, npush, fn, items, mark, opt,
                   entryLevels, entryDstack>>

Let_Finish ==
    /\ fn = "let" /\ pc = "vars" /\ items = <<>>
    /\ Let_StackDone

-----------------------------------------------------------------------------
(* Stubs, contexts and specifiers.                                         *)
(*                                                                         *)
(* A reference is an integer: 0 is nullptr (SPECIFIED, UNBOUND), a         *)
(* positive number is a stub of the heap, a negative one is the varlist    *)
(* of a context (or, for Details, the details array of an action).         *)

Symbols == {"a", "b"}

Hearts == {"WORD", "SET_WORD"}

UNBOUND == 0

Lib_Context == -1

Sys_Context == -2

User_Context == -3      \* a module that is neither Lib nor Sys

Obj_Context == -4       \* an object, as a loop makes for its variables

Frame_Context == -5     \* the varlist of a running frame

Derived_Context == -6   \* an object derived from Obj_Context

Details == -7           \* the action whose body a relative word is in

INDEX_PATCHED == 1

INDEX_ATTACHED == 1

Unset == -1             \* what Finalize_None leaves in a variable

Modules == {Lib_Context, Sys_Context, User_Context}

IS_VARLIST(s) == s < 0 /\ s # Details

CTX_KEYS(c) ==
    IF c \in {Obj_Context, Derived_Context, Frame_Context}
       THEN <<"a", "b">> ELSE <<>>

\* Get_Cell_Flag(CTX_VAR(c, index), BIND_NOTE_REUSE): the loop was given
\* the second variable as a quoted word
BIND_NOTE_REUSE(c, index) == c = Obj_Context /\ index = 2

\* SPC_BINDING(specifier): the running frame is a method of the derived
\* object
SPC_BINDING(s) == IF s = Frame_Context THEN Derived_Context ELSE UNBOUND

Is_Overriding_Context(stored, override) ==
    stored = Obj_Context /\ override = Derived_Context

IS_LET(h, s) == s > 0 /\ h[s].flavor = "LET"

IS_USE(h, s) == s > 0 /\ h[s].flavor = "USE"

IS_PATCH(h, s) == s > 0 /\ h[s].flavor = "PATCH"

NextVirtual(h, s) == h[s].next

Alloc_Singular(flavor, sym, next, over, setword, reused) ==
    [flavor |-> flavor, sym |-> sym, next |-> next, over |-> over,
     setword |-> setword, reused |-> reused, val |-> Unset]

\* A LET whose link is the LET itself
Make_Let_Patch_Looped(h, symbol, specifier) ==
    Append(h, Alloc_Singular("LET", symbol, Len(h) + 1, UNBOUND, FALSE, FALSE))

\* The heap after the allocation; the new stub is the last one.
Make_Let_Patch(h, symbol, specifier) ==
    Append(h, Alloc_Singular("LET", symbol, specifier, UNBOUND, FALSE, FALSE))

\* A USE holds one cell, a WORD! or SET-WORD! bound to what it overlays (a
\* context or a LET); for a module the cell is the module itself.
Make_Use_Core(h, binding, next, kind, reuse) ==
    Append(h, Alloc_Singular("USE", "", next, binding, kind = "SET_WORD", reuse))

\* Append_Context on a module: a patch for the variable, hitched to the
\* symbol
Append_Context(h, context, symbol) ==
    Append(h, Alloc_Singular("PATCH", symbol, UNBOUND, context, FALSE, FALSE))

\* The walk of the symbol's hitch list for the patch of one context: the
\* patch, or 0
Hitch_Patch(h, symbol, context) ==
    LET found == {p \in 1..Len(h) : /\ h[p].flavor = "PATCH"
                                    /\ h[p].sym = symbol
                                    /\ h[p].over = context}
    IN  IF found = {} THEN 0 ELSE CHOOSE p \in found : TRUE

MOD_VAR(h, mod, symbol) == Hitch_Patch(h, symbol, mod)

-----------------------------------------------------------------------------
(* Merge_Patches_May_Reuse                                                 *)

Merge_NoRecursion(h, parent, child) ==
    [h |-> Make_Use_Core(h, IF IS_LET(h, parent) THEN parent
                            ELSE h[parent].over,
                         child, "WORD", TRUE),
     r |-> Len(h) + 1]

RECURSIVE Merge_Patches_May_Reuse(_, _, _)
Merge_Patches_May_Reuse(h, parent, child) ==
    IF NextVirtual(h, parent) = child
       THEN [h |-> [h EXCEPT ![parent].reused = TRUE], r |-> parent]
       ELSE LET nx == NextVirtual(h, parent)
                sub == IF nx = 0 \/ IS_VARLIST(nx)
                          THEN [h |-> h, r |-> child, reused |-> TRUE]
                          ELSE LET m == Merge_Patches_May_Reuse(h, nx, child)
                               IN  [h |-> m.h, r |-> m.r,
                                    reused |-> IF IS_USE(m.h, m.r)
                                                  THEN m.h[m.r].reused
                                                  ELSE FALSE]
                binding == IF IS_LET(h, parent) THEN parent
                           ELSE h[parent].over
                kind == IF IS_LET(h, parent) THEN "WORD"
                        ELSE IF h[parent].setword THEN "SET_WORD"
                        ELSE "WORD"
            IN  [h |-> Make_Use_Core(sub.h, binding, sub.r, kind, sub.reused),
                 r |-> Len(sub.h) + 1]

-----------------------------------------------------------------------------
(* Get_Word_Container                                                      *)
(*                                                                         *)
(* The result is the container c and the index i of the variable (c = 0:   *)
(* none), with the heap h and the word cell w as the lookup leaves them.   *)

Modes == {"ATTACH_READ", "ATTACH_WRITE"}

Found(c, i, h, w) == [c |-> c, i |-> i, h |-> h, w |-> w]

\* The index of the first key that is the symbol, or 0
Key_Index(c, symbol) ==
    LET hits == {i \in 1..Len(CTX_KEYS(c)) : CTX_KEYS(c)[i] = symbol}
    IN  IF hits = {} THEN 0 ELSE CHOOSE i \in hits : \A j \in hits : i <= j

\* One patch of the virtual chain: the variable it gives for the symbol,
\* as <<container, index>>, or <<0, 0>> for skip_miss_patch
Patch_Hit(h, specifier, symbol, heart) ==
    LET n == h[specifier]
    IN  IF n.flavor = "LET"
           THEN IF n.sym = symbol THEN <<specifier, INDEX_PATCHED>>
                ELSE <<0, 0>>
        ELSE IF n.over \in Modules
           THEN LET var == MOD_VAR(h, n.over, symbol)
                IN  IF var # 0 THEN <<var, INDEX_PATCHED>> ELSE <<0, 0>>
        ELSE IF ~IS_VARLIST(n.over)     \* a patch-formed LET overload
           THEN IF h[n.over].sym = symbol THEN <<n.over, 1>> ELSE <<0, 0>>
        ELSE IF n.setword /\ heart # "SET_WORD"
           THEN <<0, 0>>
        ELSE LET index == Key_Index(n.over, symbol)
             IN  IF index = 0 \/ BIND_NOTE_REUSE(n.over, index)
                    THEN <<0, 0>>
                    ELSE <<n.over, index>>

\* The do/while over the chain: <<container, index, specifier>>, where
\* the specifier is what the walk ended at when there was no hit
RECURSIVE Virtual_Walk(_, _, _, _)
Virtual_Walk(h, specifier, symbol, heart) ==
    LET hit == Patch_Hit(h, specifier, symbol, heart)
        nx == NextVirtual(h, specifier)
    IN  IF hit[1] # 0 THEN <<hit[1], hit[2], specifier>>
        ELSE IF nx # 0 /\ ~IS_VARLIST(nx)
           THEN Virtual_Walk(h, nx, symbol, heart)
        ELSE <<0, 0, nx>>

Module_OwnCachesHitchHead(h, w, patch) ==
    LET all == {p \in 1..Len(h) : h[p].flavor = "PATCH" /\ h[p].sym = w.sym}
        head == CHOOSE p \in all : \A q \in all : q <= p
    IN  Found(patch, 1, h, [w EXCEPT !.binding = head, !.index = 1])

\* The word's own module has the variable: update the cache inside the
\* word itself
Module_Own(h, w, patch) ==
    Found(patch, 1, h, [w EXCEPT !.binding = patch, !.index = 1])

\* No emergence: a variable has to be declared before it is written
Module_AttachNever(h, w) == Found(0, 0, h, w)

\* "emergence" of a variable that is attached to a module
Module_Attach(h, w) ==
    Found(Len(h) + 1, INDEX_ATTACHED, Append_Context(h, w.binding, w.sym), w)

Module_InheritCached(h, w) ==
    LET patch == Hitch_Patch(h, w.sym, Lib_Context)
    IN  IF patch # 0
           THEN Found(patch, 1, h, [w EXCEPT !.binding = patch, !.index = 1])
           ELSE Found(0, 0, h, w)

\* inherit only from Lib: the patch is returned but not cached in the cell
Module_Inherit(h, w) ==
    LET patch == Hitch_Patch(h, w.sym, Lib_Context)
    IN  IF patch # 0 THEN Found(patch, 1, h, w) ELSE Found(0, 0, h, w)

not_virtually_bound(h, w, specifier, mode) ==
    LET binding == w.binding
    IN  IF binding = UNBOUND THEN Found(0, 0, h, w)
        ELSE IF IS_LET(h, binding) \/ IS_PATCH(h, binding)
           THEN Found(binding, INDEX_PATCHED, h, w)
        ELSE IF binding \in Modules
           THEN LET patch == Hitch_Patch(h, w.sym, binding)
                IN  IF patch # 0 THEN Module_Own(h, w, patch)
                    ELSE IF /\ mode = "ATTACH_WRITE"
                            /\ binding # Lib_Context
                            /\ binding # Sys_Context
                       THEN Module_Attach(h, w)
                    ELSE IF mode # "ATTACH_READ" \/ binding = Lib_Context
                       THEN Found(0, 0, h, w)
                    ELSE Module_Inherit(h, w)
        ELSE IF IS_VARLIST(binding)
           THEN \* specific binding, with the derived binding's override
                LET f_binding == IF specifier = 0 THEN UNBOUND
                                 ELSE SPC_BINDING(specifier)
                    c == IF /\ f_binding # UNBOUND
                            /\ Is_Overriding_Context(binding, f_binding)
                            THEN f_binding ELSE binding
                IN  Found(c, w.index, h, w)
        ELSE \* relative binding: the specifier is the frame
             Found(specifier, w.index, h, w)

Get_Word_Container(h, w, specifier, mode) ==
    IF specifier = 0 \/ ~(IS_LET(h, specifier) \/ IS_USE(h, specifier))
       THEN not_virtually_bound(h, w, specifier, mode)
       ELSE LET walk == Virtual_Walk(h, specifier, w.sym, w.heart)
            IN  IF walk[1] # 0 THEN Found(walk[1], walk[2], h, w)
                ELSE not_virtually_bound(h, w, walk[3], mode)

\* The variable a lookup found: a singular stub holds one cell
Var(r) == IF r.c > 0 THEN <<r.c, 1>> ELSE <<r.c, r.i>>

-----------------------------------------------------------------------------
(* Two feeds whose bindings are chains: the inner chain Y and the outer    *)
(* chain X, which may share a tail with Y.                                 *)

MaxChain == 2      \* stubs in the chain of a feed

NoMerge == [x |-> 0, y |-> 0, m |-> 0]

NoWord == [sym |-> "a", heart |-> "WORD", binding |-> UNBOUND, index |-> 0]

NoLook ==
    [n |-> 0, spec |-> 0, mode |-> "ATTACH_READ", first |-> <<0, 0>>,
     second |-> <<0, 0>>, effect |-> "none", inherited |-> FALSE]

\* The stubs of a chain, first to last
RECURSIVE Chain(_, _)
Chain(h, s) == IF s <= 0 THEN <<>> ELSE <<s>> \o Chain(h, NextVirtual(h, s))

\* Level_Specifier(L) of the frame the native was given
Feed_Binding(onX) == IF onX THEN specX ELSE specY

Set_Feed_Binding(onX, s) ==
    IF onX THEN specX' = s /\ UNCHANGED specY
           ELSE specY' = s /\ UNCHANGED specX

\* The inner feed gets its chain first; the outer one then starts from a
\* frame, from nothing or from a stub of the inner chain.
May_Add(onX) ==
    /\ merged = NoMerge
    /\ Len(Chain(heap, Feed_Binding(onX))) < MaxChain
    /\ onX \/ specX <= 0

add_let_binding(onX, symbol) ==
    /\ May_Add(onX)
    /\ heap' = Make_Let_Patch(heap, symbol, Feed_Binding(onX))
    /\ Set_Feed_Binding(onX, Len(heap) + 1)
    /\ UNCHANGED <<merged, word, named, look>>

\* Make_Or_Reuse_Use(ctx, L_specifier, REB_WORD); other callers ask for a
\* USE that only SET-WORD!s see
add_use_object(onX, ctx, kind) ==
    /\ May_Add(onX)
    /\ onX => ctx \notin Modules
    /\ heap' = Make_Use_Core(heap, ctx, Feed_Binding(onX), kind, FALSE)
    /\ Set_Feed_Binding(onX, Len(heap) + 1)
    /\ UNCHANGED <<merged, word, named, look>>

\* The outer feed was derived from the inner one's binding at some time.
Derive(s) ==
    /\ merged = NoMerge
    /\ specX <= 0
    /\ s \in {Chain(heap, specY)[i] : i \in 1..Len(Chain(heap, specY))}
    /\ \A i \in 1..Len(Chain(heap, s)) :
           heap[Chain(heap, s)[i]].over \notin Modules
    /\ specX' = s
    /\ UNCHANGED <<heap, specY, merged, word, named, look>>

Merge ==
    /\ specX > 0 /\ specY > 0
    /\ merged = NoMerge
    /\ LET m == Merge_Patches_May_Reuse(heap, specX, specY)
       IN  /\ heap' = m.h
           /\ merged' = [x |-> specX, y |-> specY, m |-> m.r]
           /\ specX' = m.r
    /\ UNCHANGED <<specY, word, named, look>>

IdleBind ==
    /\ heap = <<>>
    /\ specX = 0 /\ specY = 0
    /\ merged = NoMerge
    /\ word = NoWord /\ named = UNBOUND
    /\ look = NoLook

NoLet == [holder |-> 0, nested |-> FALSE, spec |-> 0]

NoOuter == [spec |-> 0, len |-> 0]

IdleLet ==
    /\ lstack = <<>>
    /\ val = Unset
    /\ step = "idle"
    /\ nfetch = 0
    /\ lastRead = 0
    /\ lastLet = NoLet
    /\ scene = -1
    /\ outer = NoOuter

NoSaved ==
    [stage |-> "none", victim |-> 0, copy |-> 0, acts |-> <<>>,
     changed |-> FALSE]

IdleHijack ==
    /\ acts = <<>>
    /\ nhijack = 0
    /\ saved = NoSaved

NoPvs == [pc |-> "idle"]

IdlePath ==
    /\ pvs = NoPvs
    /\ memory = <<>>

NoTc == [pc |-> "idle"]

IdleCheck == tc = NoTc

\* file-req.h: no descriptor, and the offset of a port that is not open
\* (UINT64_MAX there; any value that is no offset does here).
FILEHANDLE_NONE == -1

FILEOFFSET_UNKNOWN == -1

NoFile == [id |-> FILEHANDLE_NONE, offset |-> FILEOFFSET_UNKNOWN, flags |-> {}]

NoLast ==
    [verb |-> "none", exit |-> "ok", was_open |-> FALSE, append |-> FALSE,
     at |-> -1, offset |-> -1, size |-> -1, n |-> 0,
     seek |-> -1, why |-> "none", result |-> "none"]

NoDisk == [size |-> -1, pos |-> -1, last |-> NoLast]

NoNamed == [file |-> NoFile]

IdleFile ==
    /\ filereq = NoFile
    /\ disk = NoDisk
    /\ fs = NoNamed

NoLoop == [pc |-> "idle"]

NoPar == [pc |-> "idle"]

NoVb == [pc |-> "idle"]

IdleLoop == loop = NoLoop /\ par = NoPar /\ vb = NoVb

IdleMore ==
    /\ IdlePath
    /\ IdleCheck
    /\ IdleFile
    /\ IdleLoop

-----------------------------------------------------------------------------
(* The specification of the two stacks.                                    *)

InitStack ==
    /\ levels \in SeqsUpTo({"outer"}, MaxOuter)
    /\ dstack \in SeqsUpTo({"cell"}, MaxOuter)
    /\ fn = "none"
    /\ pc = "idle"
    /\ items = <<>>
    /\ out = "end"
    /\ mark = 0
    /\ opt = NoOpt
    /\ npush = 0
    /\ entryLevels = levels
    /\ entryDstack = dstack
    /\ IdleBind
    /\ IdleLet
    /\ IdleHijack
    /\ IdleMore

CallFeed == \E n \in 0..MaxFeed : Do_Feed_To_End_Throws(n)

CallPath ==
    \E kind \in PathKinds, path \in SeqsUpTo(ElemKinds, MaxPath),
       pushflag \in BOOLEAN, nogroups \in BOOLEAN :
        Do_Path_Throws_Core(kind, path, kind = "setpath", pushflag, nogroups)

CallTypecheck ==
    \E tests \in SeqsUpTo(TestKinds, MaxSpec), match_all \in BOOLEAN :
        Typecheck_Value(tests, match_all)

CallLambda ==
    \E isblock \in BOOLEAN, spec \in SeqsUpTo(LambdaItemKinds, MaxSpec) :
        lambda(isblock, spec)

CallLet == \E block \in SeqsUpTo(LetItemKinds, MaxSpec) : LetBlock(block)

NextStack ==
    \/ CallFeed /\ UNCHANGED <<bindVars, letVars, hijackVars, moreVars>>
    \/ Feed_Step /\ UNCHANGED <<bindVars, letVars, hijackVars, moreVars>>
    \/ CallPath /\ UNCHANGED <<bindVars, letVars, hijackVars, moreVars>>
    \/ Path_Empty /\ UNCHANGED <<bindVars, letVars, hijackVars, moreVars>>
    \/ Path_Head /\ UNCHANGED <<bindVars, letVars, hijackVars, moreVars>>
    \/ Path_Next /\ UNCHANGED <<bindVars, letVars, hijackVars, moreVars>>
    \/ Path_Finish /\ UNCHANGED <<bindVars, letVars, hijackVars, moreVars>>
    \/ CallTypecheck /\ UNCHANGED <<bindVars, letVars, hijackVars, moreVars>>
    \/ Typecheck_Test /\ UNCHANGED <<bindVars, letVars, hijackVars, moreVars>>
    \/ Typecheck_Run /\ UNCHANGED <<bindVars, letVars, hijackVars, moreVars>>
    \/ CallLambda /\ UNCHANGED <<bindVars, letVars, hijackVars, moreVars>>
    \/ Lambda_Item /\ UNCHANGED <<bindVars, letVars, hijackVars, moreVars>>
    \/ Lambda_Finish /\ UNCHANGED <<bindVars, letVars, hijackVars, moreVars>>
    \/ CallLet /\ UNCHANGED <<bindVars, letVars, hijackVars, moreVars>>
    \/ Let_Item /\ UNCHANGED <<bindVars, letVars, hijackVars, moreVars>>
    \/ Let_Finish /\ UNCHANGED <<bindVars, letVars, hijackVars, moreVars>>

SpecStack == InitStack /\ [][NextStack]_vars

-----------------------------------------------------------------------------
(* Properties of the two stacks.                                           *)

\* C1: every level a routine pushes is matched by one drop or abort on every
\* path out of it (return, throw, error), so that when the routine is done
\* the level stack is the one it was entered with.
C1_LevelsBalanced == Done => levels = entryLevels

\* A path evaluation that pushed its level and then left by a throw.
C1_Witness ==
    /\ fn = "path" /\ pc = "threw"
    /\ npush = 1
    /\ Len(levels) = Len(entryLevels)

\* C2: when path evaluation, LAMBDA's spec processing or LET's block
\* processing is done (returned, threw or failed) the data stack is as deep
\* as it was at the call, except when the caller of the path evaluation
\* asked for the refinements to be left and the result is an action.
C2_DataStackBalanced ==
    (Done /\ fn \in {"path", "lambda", "let"}) =>
        \/ Len(dstack) = Len(entryDstack)
        \/ /\ fn = "path" /\ pc = "returned"
           /\ opt.pushflag /\ out = "action"

-----------------------------------------------------------------------------
(* The specification of the chains and their merge.                        *)

IdleStack ==
    /\ levels = <<>> /\ dstack = <<>>
    /\ fn = "none" /\ pc = "idle"
    /\ items = <<>> /\ out = "end"
    /\ mark = 0 /\ opt = NoOpt /\ npush = 0
    /\ entryLevels = <<>> /\ entryDstack = <<>>

InitMerge ==
    /\ IdleStack
    /\ heap \in {<<>>, Append_Context(<<>>, User_Context, "a")}
    /\ specY \in {0, Frame_Context}
    /\ specX \in {0, Frame_Context}
    /\ merged = NoMerge
    /\ word = NoWord /\ named = UNBOUND
    /\ look = NoLook
    /\ IdleLet
    /\ IdleHijack
    /\ IdleMore

NextMerge ==
    \/ \E onX \in BOOLEAN, symbol \in Symbols :
          add_let_binding(onX, symbol) /\ UNCHANGED <<stackVars, letVars, hijackVars, moreVars>>
    \/ \E onX \in BOOLEAN, ctx \in {Obj_Context, User_Context},
          kind \in Hearts :
          add_use_object(onX, ctx, kind) /\ UNCHANGED <<stackVars, letVars, hijackVars, moreVars>>
    \/ \E s \in 1..Len(heap) : Derive(s) /\ UNCHANGED <<stackVars, letVars, hijackVars, moreVars>>
    \/ Merge /\ UNCHANGED <<stackVars, letVars, hijackVars, moreVars>>

SpecMerge == InitMerge /\ [][NextMerge]_vars

(* Properties of merged chains.                                            *)

\* C3: after merging an outer chain X with an inner chain Y, every symbol
\* that resolves through X resolves through the merged chain to the same
\* variable.
C3_OuterResolvesSame ==
    merged # NoMerge =>
        \A symbol \in Symbols, heart \in Hearts :
            LET w == [NoWord EXCEPT !.sym = symbol, !.heart = heart]
                rx == Get_Word_Container(heap, w, merged.x, "ATTACH_READ")
                rm == Get_Word_Container(heap, w, merged.m, "ATTACH_READ")
            IN  rx.c # 0 => Var(rm) = Var(rx)

\* A merge that built new stubs, of chains that both have a variable for
\* some symbol, and not the same one.
C3_Witness ==
    /\ merged # NoMerge
    /\ merged.m # merged.x
    /\ \E symbol \in Symbols :
          LET w == [NoWord EXCEPT !.sym = symbol]
              rx == Get_Word_Container(heap, w, merged.x, "ATTACH_READ")
              ry == Get_Word_Container(heap, w, merged.y, "ATTACH_READ")
          IN  rx.c # 0 /\ ry.c # 0 /\ Var(rx) # Var(ry)

-----------------------------------------------------------------------------
(* Merges of an outer chain that already ends in the inner chain: the      *)
(* outer feed's binding was derived from the inner one's, and stubs were   *)
(* added in front of it.                                                   *)

MaxReuse == 3      \* stubs of the outer chain, the shared ones included

\* ADD-LET-BINDING or ADD-USE-OBJECT on the outer feed, whose chain was
\* derived from the inner one
add_to_derived(symbol, flavor) ==
    /\ merged = NoMerge
    /\ specX > 0
    /\ Len(Chain(heap, specX)) < MaxReuse
    /\ heap' = IF flavor = "LET"
                  THEN Make_Let_Patch(heap, symbol, specX)
                  ELSE Make_Use_Core(heap, Obj_Context, specX, "WORD", FALSE)
    /\ specX' = Len(heap) + 1
    /\ UNCHANGED <<specY, merged, word, named, look>>

InitReuse ==
    /\ IdleStack
    /\ heap = <<>>
    /\ specY \in {0, Frame_Context}
    /\ specX = 0
    /\ merged = NoMerge
    /\ word = NoWord /\ named = UNBOUND
    /\ look = NoLook
    /\ IdleLet
    /\ IdleHijack
    /\ IdleMore

otherThanBind == <<stackVars, letVars, hijackVars, moreVars>>

NextReuse ==
    \/ \E symbol \in Symbols :
          add_let_binding(FALSE, symbol) /\ UNCHANGED otherThanBind
    \/ \E kind \in Hearts :
          add_use_object(FALSE, Obj_Context, kind) /\ UNCHANGED otherThanBind
    \/ \E s \in 1..Len(heap) : Derive(s) /\ UNCHANGED otherThanBind
    \/ \E symbol \in Symbols, flavor \in {"LET", "USE"} :
          add_to_derived(symbol, flavor) /\ UNCHANGED otherThanBind
    \/ Merge /\ UNCHANGED otherThanBind

SpecReuse == InitReuse /\ [][NextReuse]_vars

\* Where the inner chain begins in the outer one that was merged: the
\* number of the outer chain's stub that is the inner chain's first, or 0
Inner_At ==
    LET chain == Chain(heap, merged.x)
        at == {k \in 1..Len(chain) : chain[k] = merged.y}
    IN  IF at = {} THEN 0 ELSE CHOOSE k \in at : TRUE

\* The stubs there were before the merge: the feeds' own, the outer one's
\* being the newer
Stubs_Before == IF merged.x > merged.y THEN merged.x ELSE merged.y

\* C26: when the outer chain's tail, the chain its first stub links to, is
\* the inner chain, the merge gives the outer chain itself and makes no
\* stub; the outer chain's first stub is flagged as reused.
C26_TailReuseBuildsNothing ==
    (merged # NoMerge /\ NextVirtual(heap, merged.x) = merged.y) =>
        /\ merged.m = merged.x
        /\ Len(heap) = Stubs_Before
        /\ Chain(heap, merged.m) = <<merged.x>> \o Chain(heap, merged.y)
        /\ heap[merged.x].reused

\* A merge of an outer chain whose first stub links to the inner chain
C26_Witness ==
    /\ merged # NoMerge
    /\ Inner_At = 2
    /\ merged.m = merged.x
    /\ Len(Chain(heap, merged.y)) = 2

\* When the inner chain begins further down the outer one, the stub that
\* links to it is kept and each stub in front of that one is made anew:
\* the result is a chain of the same length that ends in the same stubs.
Merge_Rebuilds_In_Front ==
    (merged # NoMerge /\ Inner_At >= 2) =>
        LET k == Inner_At
            old == Chain(heap, merged.x)
            new == Chain(heap, merged.m)
        IN  /\ Len(heap) = Stubs_Before + (k - 2)
            /\ Len(new) = Len(old)
            /\ \A j \in 1..Len(old) :
                  IF j < k - 1 THEN new[j] > Stubs_Before
                  ELSE new[j] = old[j]
            /\ heap[old[k - 1]].reused

-----------------------------------------------------------------------------
(* A word cell and its lookups.                                            *)

MaxPatch == 2      \* variables that modules get

\* The word cells an array can hold
Cells ==
    {[sym |-> symbol, heart |-> heart, binding |-> binding,
      index |-> IF binding \in {Obj_Context, Details}
                   THEN Key_Index(Obj_Context, symbol) ELSE 0] :
        symbol \in Symbols, heart \in Hearts,
        binding \in {UNBOUND, Lib_Context, Sys_Context, User_Context,
                     Obj_Context, Details}}

\* The specifiers the cell can be looked up with: none, a frame, or a
\* stub of the feed's chain
Specifiers ==
    {0, Frame_Context} \cup {s \in 1..Len(heap) : heap[s].flavor # "PATCH"}

\* What the chain of a specifier ends with
Terminator(h, s) ==
    IF s <= 0 THEN s
    ELSE NextVirtual(h, Chain(h, s)[Len(Chain(h, s))])

\* Some code gives a module a variable.
Define(mod, symbol) ==
    /\ Cardinality({p \in 1..Len(heap) : heap[p].flavor = "PATCH"}) < MaxPatch
    /\ Hitch_Patch(heap, symbol, mod) = 0
    /\ heap' = Append_Context(heap, mod, symbol)
    /\ look' = [look EXCEPT !.n = 0]
    /\ UNCHANGED <<specX, specY, merged, word, named>>

\* Get_Word_Container(&index, word, specifier, mode), and what the caller
\* saw of it
Lookup(specifier, mode) ==
    /\ word.binding = Details => Terminator(heap, specifier) = Frame_Context
    /\ LET r == Get_Word_Container(heap, word, specifier, mode)
           effect == IF Len(r.h) > Len(heap) THEN "attached"
                     ELSE IF r.w # word THEN "cached"
                     ELSE "none"
           inherited ==
               \/ look.inherited
               \/ /\ named \in Modules \ {Lib_Context}
                  /\ IS_PATCH(r.h, r.c)
                  /\ r.h[r.c].over = Lib_Context
                  /\ r.w.binding = named
       IN  /\ heap' = r.h
           /\ word' = r.w
           /\ look' = IF /\ look.n >= 1
                         /\ look.spec = specifier
                         /\ look.mode = mode
                         THEN [look EXCEPT !.n = 2, !.second = Var(r),
                                           !.inherited = inherited]
                         ELSE [n |-> 1, spec |-> specifier, mode |-> mode,
                               first |-> Var(r), second |-> <<0, 0>>,
                               effect |-> effect, inherited |-> inherited]
    /\ UNCHANGED <<specX, specY, merged, named>>

InitBind ==
    /\ IdleStack
    /\ heap = <<>>
    /\ specX = 0
    /\ specY \in {0, Frame_Context}
    /\ merged = NoMerge
    /\ word \in Cells
    /\ named = word.binding
    /\ look = NoLook
    /\ IdleLet
    /\ IdleHijack
    /\ IdleMore

\* The array's feed gets at most one stub, and gets it first; the module
\* variables that matter to the cell are those of its symbol.
NextBind ==
    \/ \E symbol \in Symbols :
          /\ heap = <<>>
          /\ add_let_binding(FALSE, symbol) /\ UNCHANGED <<stackVars, letVars, hijackVars, moreVars>>
    \/ \E ctx \in {Obj_Context, User_Context}, kind \in Hearts :
          /\ heap = <<>>
          /\ ctx = User_Context => kind = "WORD"
          /\ add_use_object(FALSE, ctx, kind) /\ UNCHANGED <<stackVars, letVars, hijackVars, moreVars>>
    \/ \E mod \in Modules :
          Define(mod, word.sym) /\ UNCHANGED <<stackVars, letVars, hijackVars, moreVars>>
    \/ \E specifier \in Specifiers, mode \in Modes :
          Lookup(specifier, mode) /\ UNCHANGED <<stackVars, letVars, hijackVars, moreVars>>

SpecBind == InitBind /\ [][NextBind]_vars

(* Properties of the lookups.                                              *)

\* C4: resolving the same word cell under the same specifier twice, with
\* no change of bindings between, gives the same variable both times,
\* whatever the first lookup cached or attached.
C4_LookupStable == look.n = 2 => look.second = look.first

\* Two lookups of which the first attached a variable to the module.
C4_Witness == look.n = 2 /\ look.effect = "attached" /\ look.first[1] # 0

\* C5: a binding is cached in the word cell only when the variable is one
\* of the very context the word names, never when it was inherited from
\* Lib; so once the word's own module has the variable, a lookup gives it.
C5_CacheOnlyOwn ==
    /\ (named \in Modules /\ IS_PATCH(heap, word.binding)) =>
           heap[word.binding].over = named
    /\ (named \in Modules /\ Hitch_Patch(heap, word.sym, named) # 0) =>
           \A mode \in Modes :
               Get_Word_Container(heap, word, 0, mode).c =
                   Hitch_Patch(heap, word.sym, named)

\* The word got Lib's variable by inheritance, then its own module was
\* given the variable, and a lookup after that found the module's own.
C5_Witness ==
    /\ look.inherited
    /\ named = User_Context
    /\ Hitch_Patch(heap, word.sym, named) # 0
    /\ look.n >= 1
    /\ look.first = <<Hitch_Patch(heap, word.sym, named), 1>>

-----------------------------------------------------------------------------
(* The evaluation of a feed whose binding is the chain X, and the LET      *)
(* native.  The items of the feed are taken as they come: an integer, a    *)
(* word, a set-word, LET with a word or a set-word, and the enfix `+`.     *)

MaxFetch == 4      \* items the evaluator takes from the feed

Literals == {10, 5}

A_Word == -2       \* the output cell holds a WORD!, not an integer

Level(k, cell, left, holder) ==
    [k |-> k, cell |-> cell, left |-> left, holder |-> holder]

\* A word of the feed's array: attached to the user's module
Feed_Cell(symbol, heart) ==
    [sym |-> symbol, heart |-> heart, binding |-> User_Context, index |-> 0]

Top == lstack[Len(lstack)]

\* After a value: the right side of `+` takes no lookahead
After_Unit == IF lstack # <<>> /\ Top.k = "add" THEN "return" ELSE "look"

Eval_Integer(n) ==
    /\ step = "fetch" /\ nfetch < MaxFetch
    /\ nfetch' = nfetch + 1
    /\ val' = n
    /\ step' = After_Unit
    /\ UNCHANGED <<heap, specX, lstack, lastRead, lastLet>>

\* The word is looked up with the feed's binding.
Eval_Word(symbol) ==
    /\ step = "fetch" /\ nfetch < MaxFetch
    /\ nfetch' = nfetch + 1
    /\ LET r == Get_Word_Container(heap, Feed_Cell(symbol, "WORD"), specX,
                                   "ATTACH_READ")
       IN  IF r.c = 0 \/ heap[r.c].val = Unset
              THEN /\ step' = "failed"
                   /\ UNCHANGED <<val, lastRead>>
              ELSE /\ val' = heap[r.c].val
                   /\ lastRead' = r.c
                   /\ step' = After_Unit
    /\ UNCHANGED <<heap, specX, lstack, lastLet>>

Eval_Set_Word(symbol) ==
    /\ step = "fetch" /\ nfetch < MaxFetch
    /\ nfetch' = nfetch + 1
    /\ lstack' = Append(lstack, Level("set", Feed_Cell(symbol, "SET_WORD"),
                                      0, 0))
    /\ UNCHANGED <<heap, specX, val, step, lastRead, lastLet>>

\* `+` follows, or it does not
Lookahead ==
    /\ step = "look"
    /\ \/ /\ nfetch < MaxFetch
          /\ val >= 0
          /\ lstack' = Append(lstack, Level("add", NoWord, val, 0))
          /\ step' = "fetch"
       \/ /\ step' = "return"
          /\ UNCHANGED lstack
    /\ UNCHANGED <<heap, specX, val, nfetch, lastRead, lastLet>>

Return_To_Add ==
    /\ step = "return" /\ lstack # <<>> /\ Top.k = "add"
    /\ IF val < 0
          THEN step' = "failed" /\ UNCHANGED <<val, lstack>>
          ELSE /\ val' = Top.left + val
               /\ lstack' = Front(lstack)
               /\ step' = "look"
    /\ UNCHANGED <<heap, specX, nfetch, lastRead, lastLet>>

\* The set-word's variable gets the value.  A cell of the feed is looked
\* up with the feed's binding; the cell LET gave for reevaluation is
\* looked up as it is bound.
Return_To_Set ==
    /\ step = "return" /\ lstack # <<>> /\ Top.k = "set"
    /\ LET reeval == Top.holder # 0
           r == Get_Word_Container(heap, Top.cell,
                                   IF reeval THEN 0 ELSE specX,
                                   "ATTACH_WRITE")
       IN  IF r.c = 0
              THEN step' = "failed" /\ UNCHANGED <<heap, lstack>>
              ELSE /\ heap' = [r.h EXCEPT ![r.c].val = val]
                   /\ lstack' = Front(lstack)
                   /\ UNCHANGED step
    /\ UNCHANGED <<specX, val, nfetch, lastRead, lastLet>>

Statement_Done ==
    /\ step = "return" /\ lstack = <<>>
    /\ step' = "fetch"
    /\ UNCHANGED <<heap, specX, lstack, val, nfetch, lastRead, lastLet>>

-----------------------------------------------------------------------------
(* The LET native, for a WORD! or a SET-WORD!                              *)

let_initial_entryEager(symbol, isset) ==
    /\ step = "fetch" /\ nfetch < MaxFetch
    /\ nfetch' = nfetch + 1
    /\ heap' = Make_Let_Patch(heap, symbol, specX)
    /\ specX' = Len(heap) + 1
    /\ IF isset
          THEN /\ lstack' = lstack \o
                     <<Level("let", NoWord, 0, Len(heap) + 1),
                       Level("set", [sym |-> symbol, heart |-> "SET_WORD",
                                     binding |-> Len(heap) + 1,
                                     index |-> INDEX_ATTACHED],
                             0, Len(heap) + 1)>>
               /\ UNCHANGED <<val, step>>
          ELSE /\ val' = A_Word
               /\ step' = After_Unit
               /\ UNCHANGED lstack
    /\ UNCHANGED <<lastRead, lastLet>>

\* initial_entry: the new LET is chained on the feed's binding and the
\* cell to write is bound to it.  For a SET-WORD! the state becomes
\* ST_LET_EVAL_STEP and a sublevel on the same feed reevaluates the cell
\* from SPARE; for a WORD! the feed's binding is updated at once.
let_initial_entry(symbol, isset) ==
    /\ step = "fetch" /\ nfetch < MaxFetch
    /\ nfetch' = nfetch + 1
    /\ heap' = Make_Let_Patch(heap, symbol, specX)
    /\ IF isset
          THEN /\ lstack' = lstack \o
                     <<Level("let", NoWord, 0, Len(heap) + 1),
                       Level("set", [sym |-> symbol, heart |-> "SET_WORD",
                                     binding |-> Len(heap) + 1,
                                     index |-> INDEX_ATTACHED],
                             0, Len(heap) + 1)>>
               /\ UNCHANGED <<specX, val, step>>
          ELSE /\ specX' = Len(heap) + 1     \* update_feed_binding
               /\ val' = A_Word
               /\ step' = After_Unit
               /\ UNCHANGED lstack
    /\ UNCHANGED <<lastRead, lastLet>>

let_integrate_eval_bindingsNoUpdate ==
    /\ step = "return" /\ lstack # <<>> /\ Top.k = "let"
    /\ lastLet' = [holder |-> Top.holder, nested |-> FALSE, spec |-> specX]
    /\ lstack' = Front(lstack)
    /\ UNCHANGED <<heap, specX, val, step, nfetch, lastRead>>

\* integrate_eval_bindings, then update_feed_binding
let_integrate_eval_bindings ==
    /\ step = "return" /\ lstack # <<>> /\ Top.k = "let"
    /\ LET L_specifier == specX
           holder == Top.holder
           m == IF L_specifier # 0 /\ IS_LET(heap, L_specifier)
                   THEN Merge_Patches_May_Reuse(heap, L_specifier, holder)
                   ELSE [h |-> heap, r |-> holder]
       IN  /\ heap' = m.h
           /\ specX' = m.r
           /\ lastLet' = [holder |-> holder,
                          nested |-> L_specifier # NextVirtual(heap, holder),
                          spec |-> m.r]
    /\ lstack' = Front(lstack)
    /\ UNCHANGED <<val, step, nfetch, lastRead>>

InitLet ==
    /\ IdleStack
    /\ heap = <<>>
    /\ specX \in {0, Frame_Context}
    /\ specY = 0
    /\ merged = NoMerge
    /\ word = NoWord /\ named = UNBOUND
    /\ look = NoLook
    /\ lstack = <<>>
    /\ val = Unset
    /\ step = "fetch"
    /\ nfetch = 0
    /\ lastRead = 0
    /\ lastLet = NoLet
    /\ scene = 0
    /\ outer = [spec |-> specX, len |-> 0]
    /\ IdleHijack
    /\ IdleMore

otherThanLet ==
    <<stackVars, specY, merged, word, named, look, hijackVars, moreVars>>

\* The items of `let a: 10, a + 5`, as the evaluator takes them
Script == <<"let a:", "10", "end", "a", "+", "5">>

\* The feed goes on as the script does, or it is another feed from here
Follow(item) ==
    /\ scene' = IF /\ scene >= 0 /\ scene < Len(Script)
                   /\ Script[scene + 1] = item
                THEN scene + 1 ELSE -1
    /\ UNCHANGED outer

Same_Feed == UNCHANGED <<scene, outer>>

\* A block is evaluated: its feed begins with the binding the enclosing
\* feed has now, and from here on the feed followed is the block's.
Enter_Block ==
    /\ step = "fetch" /\ lstack = <<>>
    /\ outer # [spec |-> specX, len |-> Len(heap)]
    /\ outer' = [spec |-> specX, len |-> Len(heap)]
    /\ scene' = IF scene = 0 THEN 0 ELSE -1
    /\ UNCHANGED <<heap, specX, lstack, val, step, nfetch, lastRead, lastLet>>

NextLet ==
    \/ \E n \in Literals :
          Eval_Integer(n) /\ Follow(ToString(n)) /\ UNCHANGED otherThanLet
    \/ \E symbol \in Symbols :
          Eval_Word(symbol) /\ Follow(symbol) /\ UNCHANGED otherThanLet
    \/ \E symbol \in Symbols :
          Eval_Set_Word(symbol) /\ Follow(symbol \o ":")
             /\ UNCHANGED otherThanLet
    \/ \E symbol \in Symbols, isset \in BOOLEAN :
          let_initial_entry(symbol, isset)
             /\ Follow("let " \o symbol \o (IF isset THEN ":" ELSE ""))
             /\ UNCHANGED otherThanLet
    \/ Lookahead /\ Follow(IF lstack' # lstack THEN "+" ELSE "end")
          /\ UNCHANGED otherThanLet
    \/ Return_To_Add /\ Same_Feed /\ UNCHANGED otherThanLet
    \/ Return_To_Set /\ Same_Feed /\ UNCHANGED otherThanLet
    \/ let_integrate_eval_bindings /\ Same_Feed /\ UNCHANGED otherThanLet
    \/ Statement_Done /\ Same_Feed /\ UNCHANGED otherThanLet
    \/ Enter_Block /\ UNCHANGED otherThanLet

SpecLet == InitLet /\ [][NextLet]_vars

(* Properties of LET.                                                      *)

\* The stubs a lookup through the chain can give the variable of
Reaches(h, s, stub) ==
    \E i \in 1..Len(Chain(h, s)) :
        \/ Chain(h, s)[i] = stub
        \/ h[Chain(h, s)[i]].over = stub

\* C9: when the expression a LET evaluates has itself run LETs, the
\* bindings are merged with the outer LET taking priority: in the rest of
\* the feed the outer LET's word is the outer LET's variable.
C9_OuterLetWins ==
    lastLet.nested =>
        Get_Word_Container(heap,
                           Feed_Cell(heap[lastLet.holder].sym, "WORD"),
                           lastLet.spec, "ATTACH_READ").c = lastLet.holder

\* C10: while `let x: <expr>` is in its evaluation step the feed's binding
\* does not have the new variable (so an x in <expr> is the old x, not the
\* LET's), the cell that is reevaluated to do the assignment is bound to
\* the new LET, and when the step is over the new LET holds the value.
C10_RightSideOldLeftSideNew ==
    \A i \in 1..Len(lstack) :
        lstack[i].k = "let" =>
            /\ ~Reaches(heap, specX, lstack[i].holder)
            /\ lastRead # lstack[i].holder
            /\ i < Len(lstack) =>
                   /\ lstack[i + 1].k = "set"
                   /\ lstack[i + 1].cell.binding = lstack[i].holder
            /\ (i = Len(lstack) /\ step = "return") =>
                   heap[lstack[i].holder].val = val

\* `let x: ... x ...` where x had a variable before: the evaluation step
\* is over, the old x was read in it and the new LET was assigned.
C10_Witness ==
    /\ step = "return" /\ lstack # <<>> /\ Top.k = "let"
    /\ lastRead # 0
    /\ heap[lastRead].sym = heap[Top.holder].sym
    /\ heap[Top.holder].val = val

\* What the enclosing feed's specifier gives for a word of the array
Enclosing(symbol) ==
    Get_Word_Container(heap, Feed_Cell(symbol, "WORD"), outer.spec,
                       "ATTACH_READ").c

\* C11: `let a: 10, a + 5` is 15: the word after the LET is read from the
\* LET's variable.  What a LET of the feed made is not what the enclosing
\* feed's specifier resolves any word to, and with no other `a` around,
\* `a` does not resolve through it at all.
C11_LetVisibleInItsFeedOnly ==
    /\ (scene >= 4 /\ step # "failed") =>
           /\ lastRead = lastLet.holder
           /\ Enclosing("a") = 0
    /\ (scene = Len(Script) /\ step = "look") => val = 15
    /\ scene >= 4 => step # "failed"
    /\ \A symbol \in Symbols :
           \/ Enclosing(symbol) <= outer.len
           \/ ~IS_LET(heap, Enclosing(symbol))

\* `let a: 10, a + 5` was evaluated to its end, in a block whose feed
\* began on a frame.
C11_Witness ==
    /\ scene = Len(Script) /\ step = "look" /\ lstack = <<>>
    /\ val = 15
    /\ IS_LET(heap, specX) /\ heap[specX].sym = "a" /\ heap[specX].val = 10
    /\ outer.spec = Frame_Context

-----------------------------------------------------------------------------
(* Actions and the HIJACK native (c-hijack.c).                             *)
(*                                                                         *)
(* An action identity is an array: its cell [0] is the archetype, the      *)
(* rest are the details.  A dispatcher gets the details of the phase it    *)
(* runs through the archetype, so a COPY (an array of just an archetype)   *)
(* and a hijacked identity run details that are in another array.          *)
(* Identities are numbered in the order they are made; arguments are not   *)
(* modelled, a run is the outputs it prints.                               *)

MaxActs == 4       \* action identities made
MaxHijacks == 2    \* hijacks done
MaxTrace == 3      \* outputs of a run that are looked at

NoDetails == [kind |-> "none", tok |-> 0, adaptee |-> 0]

ACT_ARCHETYPE(A, a) == A[a].archetype

\* The identity an ACTION! cell designates
VAL_ACTION(cell) == cell

ACT_DISPATCHER(A, a) == A[a].dispatcher

ACT_DETAILS(A, a) == A[VAL_ACTION(ACT_ARCHETYPE(A, a))].details

ACT_KEYLIST(A, a) == A[a].keylist

\* LINK(Ancestor, keylist): FUNC makes a keylist of its own, COPY and ADAPT
\* share the keylist of what they are given, so every keylist is a root.
Ancestor(keylist) == keylist

RECURSIVE Keylist_Derived(_, _)
Keylist_Derived(keylist, base) ==
    IF keylist = base THEN TRUE
    ELSE IF keylist = Ancestor(keylist) THEN FALSE
    ELSE Keylist_Derived(Ancestor(keylist), base)

Action_Is_Base_Of(A, base, derived) ==
    \/ derived = base
    \/ Keylist_Derived(ACT_KEYLIST(A, derived), ACT_KEYLIST(A, base))

Make_Action(A, dispatcher, details, keylist) ==
    Append(A, [dispatcher |-> dispatcher,
               archetype  |-> Len(A) + 1,
               details    |-> details,
               keylist    |-> IF keylist = 0 THEN Len(A) + 1 ELSE keylist,
               from       |-> 0])

\* func [] [print <n>]: a paramlist of its own, the body in the details
Make_Interpreted_Action(A) ==
    Make_Action(A, "Func_Dispatcher",
                [kind |-> "body", tok |-> Len(A) + 1, adaptee |-> 0], 0)

\* adapt :a [print <-n>]
adapt(A, adaptee) ==
    Make_Action(A, "Adapter_Dispatcher",
                [kind |-> "adapter", tok |-> -(Len(A) + 1),
                 adaptee |-> adaptee],
                ACT_KEYLIST(A, adaptee))

\* copy :a: the same dispatcher, no details of its own, and the archetype
\* of what is copied.  `from` is history: what the copy was taken of.
Copy_Action(A, act) ==
    LET proxy == Make_Action(A, ACT_DISPATCHER(A, act), NoDetails,
                             ACT_KEYLIST(A, act))
        n == Len(proxy)
    IN  [proxy EXCEPT ![n].archetype = ACT_ARCHETYPE(A, act),
                      ![n].from = act]

\* c is a copy taken of act, and act is still what was copied
IsSavedCopy(A, c, act) ==
    /\ c \in 1..Len(A)
    /\ A[c].from = act
    /\ ACT_DISPATCHER(A, c) = ACT_DISPATCHER(A, act)
    /\ ACT_ARCHETYPE(A, c) = ACT_ARCHETYPE(A, act)

(* Running an action.  A run gives the outputs printed (at most `len` of   *)
(* them are followed), how it ended, and the identities whose dispatcher   *)
(* or archetype it went through.                                           *)

Ended(outs, how, reads) ==
    [out |-> outs, end |-> how, misread |-> 0, reads |-> reads]

After(tok, phase, r) ==
    [r EXCEPT !.out = <<tok>> \o @, !.reads = @ \union {phase}]

\* A dispatcher handed details of another dispatcher's kind: what the
\* build does then (an assert, a run on what the slots hold) is not
\* defined, so the run ends in an outcome that is known only by the
\* details that were misread.
Misread(details, phase) ==
    [out |-> <<>>, end |-> "misread", misread |-> details.tok,
     reads |-> {phase}]

RECURSIVE Dispatch(_, _, _, _, _, _)

Func_Dispatcher(A, phase) ==
    LET details == ACT_DETAILS(A, phase)
    IN  IF details.kind # "body" THEN Misread(details, phase)
        ELSE Ended(<<details.tok>>, "done", {phase})

Adapter_Dispatcher(A, phase, keylist, len) ==
    LET details == ACT_DETAILS(A, phase)
    IN  IF details.kind # "adapter" THEN Misread(details, phase)
        ELSE After(details.tok, phase,
                   Dispatch(A, ACT_DISPATCHER(A, details.adaptee),
                            details.adaptee, keylist, 0, len - 1))

\* A new frame is built for the action and the action is run in it
Push_Redo_Action_Frame(A, run, quiet, len) ==
    Dispatch(A, ACT_DISPATCHER(A, VAL_ACTION(run)), VAL_ACTION(run),
             ACT_KEYLIST(A, VAL_ACTION(run)), quiet, len)

Hijacker_Dispatcher(A, phase, keylist, quiet, len) ==
    LET hijacker == VAL_ACTION(ACT_ARCHETYPE(A, phase))
        exemplar_keylist == ACT_KEYLIST(A, hijacker)
        r == IF Keylist_Derived(keylist, exemplar_keylist)
             THEN Dispatch(A, ACT_DISPATCHER(A, hijacker), phase, keylist,
                           quiet + 1, len)
             ELSE Push_Redo_Action_Frame(A, ACT_ARCHETYPE(A, phase),
                                         quiet + 1, len)
    IN  [r EXCEPT !.reads = @ \union {phase, hijacker}]

\* `quiet` counts the dispatchers entered since the last output: more of
\* them than there are identities is a cycle that prints nothing.
Dispatch(A, dispatcher, phase, keylist, quiet, len) ==
    IF len = 0 THEN Ended(<<>>, "cut", {})
    ELSE IF quiet > Len(A) THEN Ended(<<>>, "hangs", {})
    ELSE IF dispatcher = "Func_Dispatcher" THEN Func_Dispatcher(A, phase)
    ELSE IF dispatcher = "Adapter_Dispatcher"
         THEN Adapter_Dispatcher(A, phase, keylist, len)
    ELSE Hijacker_Dispatcher(A, phase, keylist, quiet, len)

\* A call of the action through any reference to its identity
Run(A, a, len) ==
    LET r == Dispatch(A, ACT_DISPATCHER(A, a), a, ACT_KEYLIST(A, a), 0, len)
    IN  [r EXCEPT !.reads = @ \union {a}]

\* What a caller sees of a run
Behaviour(A, a, len) == [Run(A, a, len) EXCEPT !.reads = {}]

\* The native's effect on the identities
hijackAlwaysShim(A, victim, hijacker) ==
    IF victim = hijacker THEN A
    ELSE [A EXCEPT ![victim].dispatcher = "Hijacker_Dispatcher",
                   ![victim].archetype = ACT_ARCHETYPE(A, hijacker)]

hijackIntoDetails(A, victim, hijacker) ==
    IF victim = hijacker THEN A
    ELSE [A EXCEPT ![victim].dispatcher = ACT_DISPATCHER(A, hijacker),
                   ![victim].details = ACT_DETAILS(A, hijacker)]

hijack(A, victim, hijacker) ==
    IF victim = hijacker THEN A
    ELSE [A EXCEPT
            ![victim].dispatcher =
                IF Action_Is_Base_Of(A, victim, hijacker)
                THEN ACT_DISPATCHER(A, hijacker)
                ELSE "Hijacker_Dispatcher",
            ![victim].archetype = ACT_ARCHETYPE(A, hijacker)]

(* The operations.  `saved` follows the use the native's comment gives:    *)
(* foo-saved: copy :foo, hijack :foo :bar, ..., hijack :foo :foo-saved.    *)

Func ==
    /\ Len(acts) < MaxActs
    /\ acts' = Make_Interpreted_Action(acts)
    /\ UNCHANGED <<nhijack, saved>>

Copy(act) ==
    /\ Len(acts) < MaxActs
    /\ acts' = Copy_Action(acts, act)
    /\ UNCHANGED <<nhijack, saved>>

Adapt(adaptee) ==
    /\ Len(acts) < MaxActs
    /\ acts' = adapt(acts, adaptee)
    /\ UNCHANGED <<nhijack, saved>>

\* The identities after the native, with the history kept: a hijacked
\* identity is no longer the copy it was taken as.
Hijacked(A, victim, hijacker) ==
    IF victim = hijacker THEN A
    ELSE [hijack(A, victim, hijacker) EXCEPT ![victim].from = 0]

Hijack(victim, hijacker) ==
    LET restoring ==
            /\ saved.stage = "hijacked"
            /\ victim = saved.victim
            /\ IsSavedCopy(saved.acts, hijacker, victim)
        starting ==
            \E c \in 1..Len(acts) : acts[c].from = victim
    IN  /\ nhijack < MaxHijacks
        /\ nhijack' = IF victim = hijacker THEN nhijack ELSE nhijack + 1
        /\ acts' = Hijacked(acts, victim, hijacker)
        /\ saved' =
             IF victim = hijacker THEN saved
             ELSE IF restoring
                  THEN [saved EXCEPT !.stage = "restored", !.copy = hijacker]
             ELSE IF starting
                  THEN [stage |-> "hijacked", victim |-> victim, copy |-> 0,
                        acts |-> acts,
                        changed |->
                            Behaviour(hijack(acts, victim, hijacker),
                                      victim, MaxTrace)
                              # Behaviour(acts, victim, MaxTrace)]
             ELSE NoSaved

InitHijack ==
    /\ IdleStack
    /\ IdleBind
    /\ IdleLet
    /\ IdleMore
    /\ acts = <<>>
    /\ nhijack = 0
    /\ saved = NoSaved

NextHijack ==
    \/ Func /\ UNCHANGED <<stackVars, bindVars, letVars, moreVars>>
    \/ \E act \in 1..Len(acts) :
          Copy(act) /\ UNCHANGED <<stackVars, bindVars, letVars, moreVars>>
    \/ \E adaptee \in 1..Len(acts) :
          Adapt(adaptee) /\ UNCHANGED <<stackVars, bindVars, letVars, moreVars>>
    \/ \E victim \in 1..Len(acts), hijacker \in 1..Len(acts) :
          Hijack(victim, hijacker) /\ UNCHANGED <<stackVars, bindVars, letVars, moreVars>>

SpecHijack == InitHijack /\ [][NextHijack]_vars

(* Properties of HIJACK.                                                   *)

\* C6: after hijack(V, H) and then hijack(V, a copy of V taken before the
\* first hijack), every identity that existed before the first hijack
\* runs as it did before it.
C6_SavedCopyRestores ==
    saved.stage = "restored" =>
        \A a \in 1..Len(saved.acts) :
            Behaviour(acts, a, MaxTrace) = Behaviour(saved.acts, a, MaxTrace)

\* The first hijack had changed what the victim runs, and the copy was
\* put back.
C6_Witness ==
    /\ saved.stage = "restored"
    /\ saved.changed
    /\ Behaviour(acts, saved.victim, MaxTrace)
         = Behaviour(saved.acts, saved.victim, MaxTrace)

\* The step is the hijack of the victim by another action
IsHijack(victim, hijacker) ==
    /\ nhijack' = nhijack + 1
    /\ victim # hijacker
    /\ acts'[victim].archetype = acts[hijacker].archetype
    /\ acts' = Hijacked(acts, victim, hijacker)

\* C7: after HIJACK the victim's identity runs what the hijacker runs, and
\* so does the victim as the adaptee of an adaptation: the adaptation runs
\* its prelude and then what the hijacker runs.
C7_ReferencesRunHijacker ==
    [][ \A victim \in 1..Len(acts), hijacker \in 1..Len(acts) :
          IsHijack(victim, hijacker) =>
            /\ Behaviour(acts', victim, MaxTrace)
                 = Behaviour(acts', hijacker, MaxTrace)
            /\ \A a \in 1..Len(acts) :
                  ( /\ ACT_DISPATCHER(acts', a) = "Adapter_Dispatcher"
                    /\ ACT_DETAILS(acts', a).kind = "adapter"
                    /\ ACT_DETAILS(acts', a).adaptee = victim ) =>
                      Behaviour(acts', a, MaxTrace) =
                          [Behaviour(acts', hijacker, MaxTrace - 1)
                             EXCEPT !.out = <<ACT_DETAILS(acts', a).tok>> \o @]
      ]_vars

\* What C8 says of a copy c taken of the victim, over the hijack that
\* `saved` has the identities from before of
CopyKeeps(c) ==
    /\ Behaviour(acts, c, MaxTrace) = Behaviour(saved.acts, c, MaxTrace)
    /\ IsSavedCopy(saved.acts, c, saved.victim) =>
          Behaviour(acts, c, MaxTrace)
            = Behaviour(saved.acts, saved.victim, MaxTrace)

\* C8 as stated: a hijack of the victim changes the run of no copy taken
\* of the victim before, and a copy taken of the victim as it still was
\* runs what the victim ran.
C8_CopyKeepsBehaviour ==
    saved.stage = "hijacked" =>
        \A c \in 1..Len(saved.acts) :
            saved.acts[c].from = saved.victim => CopyKeeps(c)

\* C8, amended: the same for every copy whose run did not go through the
\* victim's identity.
C8_CopyKeepsBehaviourUnlessThroughVictim ==
    saved.stage = "hijacked" =>
        \A c \in 1..Len(saved.acts) :
            ( /\ saved.acts[c].from = saved.victim
              /\ saved.victim \notin Run(saved.acts, c, MaxTrace).reads ) =>
                CopyKeeps(c)

\* A victim with a copy taken of it has been hijacked, the victim runs
\* something else and the copy runs what the victim ran.
C8_Witness ==
    /\ saved.stage = "hijacked"
    /\ saved.changed
    /\ \E c \in 1..Len(saved.acts) :
          /\ IsSavedCopy(saved.acts, c, saved.victim)
          /\ saved.victim \notin Run(saved.acts, c, MaxTrace).reads
          /\ Behaviour(acts, c, MaxTrace)
               = Behaviour(saved.acts, saved.victim, MaxTrace)
          /\ Behaviour(acts, saved.victim, MaxTrace)
               # Behaviour(saved.acts, saved.victim, MaxTrace)

\* h is an adaptation of a: adapt :a [...], as it runs
Is_Adaptation_Of(A, h, a) ==
    /\ ACT_DISPATCHER(A, h) = "Adapter_Dispatcher"
    /\ ACT_DETAILS(A, h).kind = "adapter"
    /\ ACT_DETAILS(A, h).adaptee = a

\* A call of a prints tok over and over: however many outputs are
\* followed, the run has printed that many and has not ended.
Recurses(A, a, tok) ==
    \A len \in 1..MaxTrace :
        LET r == Run(A, a, len)
        IN  /\ r.end = "cut"
            /\ r.out = [i \in 1..len |-> tok]

\* A call of a runs the added code once and then what `was` ran before
Runs_Once_Then(A, a, tok, Was, was) ==
    Behaviour(A, a, MaxTrace) =
        [Behaviour(Was, was, MaxTrace - 1) EXCEPT !.out = <<tok>> \o @]

\* C39: a hijack of an action by an adaptation of that same action makes
\* every call of the action recurse without end; a hijack of it by an
\* adaptation of a copy taken of it beforehand makes a call run the added
\* code once, then what the action ran before the hijack (a run that
\* ended), and end.
C39_AdaptACopy ==
    [][ \A victim \in 1..Len(acts), hijacker \in 1..Len(acts) :
          IsHijack(victim, hijacker) =>
            /\ Is_Adaptation_Of(acts, hijacker, victim) =>
                  Recurses(acts', victim, ACT_DETAILS(acts, hijacker).tok)
            /\ \A c \in 1..Len(acts) :
                  ( /\ c # victim
                    /\ IsSavedCopy(acts, c, victim)
                    /\ Is_Adaptation_Of(acts, hijacker, c)
                    /\ Run(acts, victim, MaxTrace - 1).end = "done" ) =>
                      /\ Runs_Once_Then(acts', victim,
                                        ACT_DETAILS(acts, hijacker).tok,
                                        acts, victim)
                      /\ Run(acts', victim, MaxTrace).end = "done"
      ]_vars

\* The victim was hijacked by an adaptation of a copy of it and its call
\* printed the added output and then its own and ended; it was then
\* hijacked by an adaptation of itself, and its call no longer ends.
C39_Witness ==
    /\ saved.stage = "hijacked"
    /\ nhijack = 2
    /\ LET v == saved.victim
       IN  /\ \E c, h \in 1..Len(saved.acts) :
                 /\ saved.acts[c].from = v
                 /\ Is_Adaptation_Of(saved.acts, h, c)
                 /\ c # v
                 /\ ACT_ARCHETYPE(saved.acts, v) = h
                 /\ Behaviour(saved.acts, v, MaxTrace).end = "done"
                 /\ Len(Behaviour(saved.acts, v, MaxTrace).out) = 2
                 /\ Head(Behaviour(saved.acts, v, MaxTrace).out)
                      = ACT_DETAILS(saved.acts, h).tok
           /\ \E h \in 1..Len(acts) :
                 /\ Is_Adaptation_Of(saved.acts, h, v)
                 /\ ACT_ARCHETYPE(acts, v) = h
                 /\ Recurses(acts, v, ACT_DETAILS(acts, h).tok)

-----------------------------------------------------------------------------
(* The path walk and the cells it refers to: Do_Path_Throws_Core and       *)
(* Next_Path_Throws of c-path.c, with pvs->deferred, the dispatchers'      *)
(* results, the writes of a SET-PATH! and the refinements of an ACTION!    *)
(* path.                                                                   *)

MaxLoc == 2        \* cells a path can refer to: variables and slots

Locs == 1..MaxLoc

Cell(t, x, y) == [t |-> t, x |-> x, y |-> y]

NoVal == Cell("none", 0, 0)        \* opt_setval == NULL

Nulled == Cell("null", 0, 0)

Container == Cell("context", 0, 0) \* its picks are slots: R_REFERENCE

Immediate(x, y) == Cell("pair", x, y) \* a value with no identity: PAIR!, DATE!

Integer(n) == Cell("integer", n, 0)

Action == Cell("action", 0, 0)

CellVals == {Container, Action, Immediate(0, 0)}

SetVals == {Integer(1)}

\* The elements of a path: the words a and b, and a GROUP!.
PathElems == {"a", "b", "(g)"}

PathFlags == {{}, {"PUSH_PATH_REFINEMENTS"}, {"NO_PATH_GROUPS"}}

\* Get_Mutable_Var_May_Fail: the variable cell of the head word.
Get_Mutable_Var(symbol) == IF symbol = "a" THEN 1 ELSE 2

\* A dispatcher's answer: the R_ code, and what it left behind.
Answer(r, ref, v) == [r |-> r, ref |-> ref, out |-> v]

\* An immediate value's dispatcher picks or pokes one part of pvs->out.
Pick_Immediate(v, picker) == Integer(IF picker = "a" THEN v.x ELSE v.y)

Poke_Immediate(v, picker, setval) ==
    IF picker = "a" THEN Immediate(setval.x, v.y) ELSE Immediate(v.x, setval.x)

\* Path_Dispatch[VAL_TYPE(pvs->out)](pvs, picker, opt_setval): what the
\* dispatcher of each type can answer.  With a set value and a container the
\* dispatcher either hands out the slot or assigns it itself.
Path_Dispatcher(v, picker, setval) ==
    IF v.t = "context"
       THEN {Answer("R_REFERENCE", l, v) : l \in Locs}
              \cup {Answer("R_UNHANDLED", 0, v)}
              \cup (IF setval = NoVal
                       THEN {Answer("NULL", 0, v),
                             Answer("VALUE", 0, Immediate(0, 0))}
                       ELSE {Answer("R_INVISIBLE", l, v) : l \in Locs})
    ELSE IF v.t = "pair"
       THEN IF setval = NoVal
               THEN {Answer("VALUE", 0, Pick_Immediate(v, picker))}
               ELSE {Answer("R_IMMEDIATE", 0,
                            Poke_Immediate(v, picker, setval))}
    ELSE IF v.t = "action"
       THEN {Answer("R_OUT", 0, v)}
    ELSE {Answer("R_UNHANDLED", 0, v)}

\* pvs->opt_label == NULL: no label has been captured.
NULL_LABEL == "(null)"

\* IS_WORD(pvs->refine): the pickers of the walk are the words a and b, the
\* ones a GROUP! evaluates to included.
Is_Word(picker) == picker \in {"a", "b"}

\* Next_Path_Throws after the dispatch: the picker's spelling becomes the
\* label when pvs->out is an action and no label was captured before it.
\* label_at remembers which element of the path the spelling came from.
Capture_Label(p, picker, at) ==
    IF p.out.t = "action" /\ Is_Word(picker) /\ p.opt_label = NULL_LABEL
       THEN [p EXCEPT !.opt_label = picker, !.label_at = at]
       ELSE p

Push_Frame_At(kind, array, setval, flags) ==
    [pc |-> "head", eval_type |-> kind, array |-> array, index |-> 1,
     out |-> NoVal, deferred |-> 0, special |-> setval, flags |-> flags,
     dsp |-> <<>>, refs |-> <<>>, writes |-> <<>>, r |-> "none",
     pushed |-> <<>>, was |-> memory,
     opt_label |-> NULL_LABEL, label_at |-> 0]

FRM_AT_END(p) == p.index > Len(p.array)

Fetch_Next_In_Frame(p) == [p EXCEPT !.index = @ + 1]

Failed(p) == [pc |-> "failed", p |-> p, m |-> memory]

Outcome(p, m) == [pc |-> p.pc, p |-> p, m |-> m]

\* while (top > bottom) { swap the spellings; top--; bottom++; }
RECURSIVE Swap_Spellings(_, _, _)
Swap_Spellings(stack, bottom, top) ==
    IF top > bottom
       THEN Swap_Spellings([stack EXCEPT ![bottom] = stack[top],
                                         ![top] = stack[bottom]],
                           bottom + 1, top - 1)
       ELSE stack

Reverse_RefinementsKept(stack) == stack

Reverse_Refinements(stack) == Swap_Spellings(stack, 1, Len(stack))

\* Do_Path_Throws_Core after the walk: a set returns at once; refinements
\* pushed by the walk are reversed, and specialized away unless the caller
\* asked for them.
After_Walk(p) ==
    IF p.special # NoVal
       THEN [p EXCEPT !.pc = "returned"]
    ELSE IF p.dsp # <<>>
       THEN IF "PUSH_PATH_REFINEMENTS" \in p.flags
               THEN [p EXCEPT !.pc = "returned", !.pushed = p.dsp,
                              !.dsp = Reverse_Refinements(p.dsp)]
               ELSE [p EXCEPT !.pc = "returned", !.pushed = p.dsp,
                              !.dsp = <<>>]
    ELSE [p EXCEPT !.pc = "returned"]

Walk_On(p) ==
    IF FRM_AT_END(p) THEN After_Walk(p) ELSE [p EXCEPT !.pc = "next"]

\* What a GROUP! in a path can evaluate to, as a picker.
GroupPickers == {"a", "b"}

\* Do_Path_Throws_Core up to the first Fetch_Next_In_Frame: the head of the
\* path seeds pvs->out, and a word's variable is remembered in
\* pvs->deferred.
Seed_Path(p) ==
    LET head == p.array[1]
        var == Get_Mutable_Var(head)
        seeded(v, ref) ==
            Walk_On(Fetch_Next_In_Frame(
                [p EXCEPT !.out = v, !.deferred = ref, !.refs = <<ref>>,
                          !.opt_label = IF ref # 0 /\ v.t = "action"
                                           THEN head ELSE @,
                          !.label_at = IF ref # 0 /\ v.t = "action"
                                          THEN 1 ELSE @]))
    IN  IF head = "(g)"
           THEN IF "NO_PATH_GROUPS" \in p.flags
                   THEN {Failed(p)}
                   ELSE {[pc |-> "threw", p |-> p, m |-> memory], Failed(p)}
                          \cup {Outcome(seeded(v, 0), memory) : v \in CellVals}
           ELSE {Failed(p), Outcome(seeded(memory[var], var), memory)}

\* The SET-PATH!'s last step: the dispatcher was given the set value.
Poked(p, picker, d) ==
    LET at == p.index - 1
        q == [p EXCEPT !.r = d.r, !.out = d.out]
        write(to, v) ==
            Outcome(After_Walk([q EXCEPT !.writes =
                                   Append(@, [to |-> to, val |-> v, at |-> at])]),
                    [memory EXCEPT ![to] = v])
    IN  IF d.r = "R_INVISIBLE" THEN write(d.ref, p.special)
        ELSE IF d.r = "R_REFERENCE" THEN write(d.ref, p.special)
        ELSE IF d.r = "R_IMMEDIATE"
           THEN IF p.deferred = 0 THEN Failed(q) ELSE write(p.deferred, d.out)
        ELSE Failed(q)

\* Any other step: the dispatcher picked, and only a reference it handed out
\* stays in pvs->deferred.
PickedKeepDeferred(p, picker, d) ==
    LET q == [p EXCEPT !.r = d.r]
        on(v, ref) ==
            LET s == [q EXCEPT !.out = v,
                               !.deferred = IF ref = 0 THEN @ ELSE ref,
                               !.refs = Append(@, ref)]
            IN  Outcome(Walk_On(s), memory)
    IN  IF d.r = "NULL" THEN on(Nulled, 0)
        ELSE IF d.r = "R_REFERENCE" THEN on(memory[d.ref], d.ref)
        ELSE IF d.r = "R_UNHANDLED" THEN Failed(q)
        ELSE IF d.r = "R_OUT" THEN
             LET s == [q EXCEPT !.dsp = Append(@, picker),
                                !.refs = Append(@, 0)]
             IN  Outcome(Walk_On(s), memory)
        ELSE on(d.out, 0)

Picked(p, picker, d) ==
    LET q == [p EXCEPT !.r = d.r, !.deferred = 0]
        at == p.index - 1
        on(v, ref) ==
            LET s == [q EXCEPT !.out = v, !.deferred = ref,
                               !.refs = Append(@, ref)]
            IN  Outcome(Walk_On(Capture_Label(s, picker, at)), memory)
    IN  IF d.r = "NULL" THEN on(Nulled, 0)
        ELSE IF d.r = "R_REFERENCE" THEN on(memory[d.ref], d.ref)
        ELSE IF d.r = "R_UNHANDLED" THEN Failed(q)
        ELSE IF d.r = "R_OUT" THEN
             \* the ACTION! dispatcher pushed the refinement
             LET s == [q EXCEPT !.dsp = Append(@, picker),
                                !.refs = Append(@, 0)]
             IN  Outcome(Walk_On(Capture_Label(s, picker, at)), memory)
        ELSE on(d.out, 0)

\* One call of Next_Path_Throws.
Next_Path_Throws(p) ==
    LET elem == p.array[p.index]
        pickers == IF elem = "(g)" THEN GroupPickers ELSE {elem}
        f == Fetch_Next_In_Frame(p)
        set == FRM_AT_END(f) /\ p.eval_type = "setpath"
        steps ==
            {IF set THEN Poked(f, picker, d) ELSE Picked(f, picker, d) :
                <<picker, d>> \in
                    UNION {{<<k, a>> :
                               a \in Path_Dispatcher(p.out, k,
                                         IF set THEN p.special ELSE NoVal)} :
                           k \in pickers}}
    IN  IF p.out = Nulled THEN {Failed(p)}
        ELSE IF elem = "(g)"
           THEN IF "NO_PATH_GROUPS" \in p.flags
                   THEN {Failed(p)}
                   ELSE {[pc |-> "threw", p |-> p, m |-> memory], Failed(p)}
                          \cup steps
        ELSE steps

Land(o) ==
    /\ pvs' = [o.p EXCEPT !.pc = o.pc]
    /\ memory' = o.m

PathCall ==
    /\ pvs.pc = "idle"
    /\ \E kind \in PathKinds, array \in SeqsUpTo(PathElems, MaxPath),
          flags \in PathFlags :
          \E setval \in IF kind = "setpath" THEN SetVals ELSE {NoVal} :
             LET p == Push_Frame_At(kind, array, setval, flags)
             IN  /\ pvs' = IF array = <<>>
                              THEN [p EXCEPT !.pc = "failed"]
                              ELSE p
                 /\ UNCHANGED memory

PathSeed ==
    /\ pvs.pc = "head"
    /\ \E o \in Seed_Path(pvs) : Land(o)

PathStep ==
    /\ pvs.pc = "next"
    /\ \E o \in Next_Path_Throws(pvs) : Land(o)

InitPath ==
    /\ IdleStack
    /\ IdleBind
    /\ IdleLet
    /\ IdleHijack
    /\ IdleCheck
    /\ IdleFile
    /\ IdleLoop
    /\ pvs = NoPvs
    /\ memory \in [Locs -> CellVals]

otherThanPath ==
    <<stackVars, bindVars, letVars, hijackVars, checkVars, fileVars, loopVars>>

NextPath ==
    \/ PathCall /\ UNCHANGED otherThanPath
    \/ PathSeed /\ UNCHANGED otherThanPath
    \/ PathStep /\ UNCHANGED otherThanPath

SpecPath == InitPath /\ [][NextPath]_vars

\* The element of the path at which pvs->out became the action: every
\* element after it was pushed as a refinement.
First_Seen_At(p) == Len(p.array) - Len(p.pushed)

\* C38: the label a path reports for the action it reached is the name
\* under which the action was first seen, the head word or the picker that
\* produced it, and never the name of a refinement: when a label is
\* reported it was taken from the element that produced the action, and
\* an action produced by a word has that label.
C38_LabelIsFirstName ==
    ( /\ pvs.pc = "returned"
      /\ pvs.special = NoVal
      /\ pvs.out = Action ) =>
        LET k == First_Seen_At(pvs)
        IN  /\ pvs.label_at # 0 => pvs.label_at = k
            /\ pvs.array[k] # "(g)" =>
                  /\ pvs.label_at = k
                  /\ pvs.opt_label = pvs.array[k]

C12_WitnessNoReference ==
    /\ pvs.pc = "failed"
    /\ pvs.r = "R_IMMEDIATE"
    /\ Len(pvs.array) = 3
    /\ pvs.refs[1] # 0
    /\ pvs.refs[2] = 0

\* C13: when a set value is given and the path evaluation neither throws nor
\* fails, the set has been done: exactly one write happened, at the last
\* element of the path, and it wrote the set value (into a slot, or as the
\* poked part of an immediate value written back).
C13_SetValueWrittenOnce ==
    (pvs.pc = "returned" /\ pvs.special # NoVal) =>
        /\ Len(pvs.writes) = 1
        /\ pvs.writes[1].at = Len(pvs.array)
        /\ \/ pvs.writes[1].val = pvs.special
           \/ /\ pvs.r = "R_IMMEDIATE"
              /\ pvs.special.x \in {pvs.writes[1].val.x, pvs.writes[1].val.y}

\* C14: the refinements of an action path are pushed in source order and
\* then reversed in place: the stack holds the same refinements, each once,
\* and popping them from the top yields them in source order.
C14_RefinementsReversedInPlace ==
    (pvs.pc = "returned" /\ pvs.pushed # <<>>) =>
        LET n == Len(pvs.pushed)
            first == Len(pvs.array) - n
        IN  /\ first >= 1
            /\ \A i \in 1..n :
                  pvs.array[first + i] \in {pvs.pushed[i], "(g)"}
            /\ IF "PUSH_PATH_REFINEMENTS" \in pvs.flags
                  THEN /\ Len(pvs.dsp) = n
                       /\ \A i \in 1..n : pvs.dsp[n + 1 - i] = pvs.pushed[i]
                  ELSE pvs.dsp = <<>>

\* `a/a/b` with a an action, for a caller that takes the refinements on the
\* stack: /b is below /a, so /a is popped first.
C14_Witness ==
    /\ pvs.pc = "returned"
    /\ "PUSH_PATH_REFINEMENTS" \in pvs.flags
    /\ pvs.array = <<"a", "a", "b">>
    /\ pvs.pushed = <<"a", "b">>
    /\ pvs.dsp = <<"b", "a">>

-----------------------------------------------------------------------------
(* The type tests and the coercion of an argument: what Typecheck_Value    *)
(* answers for a value, and what Typecheck_Coerce_Argument does to the     *)
(* argument cell.                                                          *)

MaxTests == 2      \* items of a parameter's or a test's array
MaxInner == 1      \* items of a TYPE-BLOCK! or TYPE-GROUP! inside it

\* A cell, as far as the tests go: its QUOTE_BYTE, its heart, and what it
\* names or holds.
ISOTOPE_0 == 0
UNQUOTED_1 == 1
QUASI_2 == 2
ONEQUOTE_3 == 3

Atom(quote, heart, sym) == [quote |-> quote, heart |-> heart, sym |-> sym]

Is_Isotope(v) == v.quote = ISOTOPE_0

Is_Quasi(v) == v.quote = QUASI_2

Is_Quoted(v) == v.quote >= ONEQUOTE_3

Is_Nulled(v) == Is_Isotope(v) /\ v.heart = "word" /\ v.sym = "null"

Is_Isoword(v) == Is_Isotope(v) /\ v.heart = "word"

Is_Void(v) == v.quote = UNQUOTED_1 /\ v.heart = "void"

Is_Activation(v) == Is_Isotope(v) /\ v.heart = "frame"

Is_Raised(v) == Is_Isotope(v) /\ v.heart = "error"

Is_Pack(v) == Is_Isotope(v) /\ v.heart = "pack"

\* a pack whose first slot holds a pack cannot decay
Is_Pack_Undecayable(v) == v.sym = "pack"

Is_Isotope_Unstable(v) == v.heart \in {"pack", "error"}

Is_Stable(v) == ~(Is_Isotope(v) /\ Is_Isotope_Unstable(v))

\* Meta_Quotify: an isotope becomes its quasiform, anything else gains a
\* quote level.
Meta_Quotify(v) ==
    IF Is_Isotope(v) THEN [v EXCEPT !.quote = QUASI_2]
    ELSE [v EXCEPT !.quote = @ + 2]

\* Meta_Unquotify_Undecayed: a quasiform becomes the isotope, a quoted value
\* loses a quote level.
Meta_Unquotify_Undecayed(v) ==
    IF Is_Quasi(v) THEN [v EXCEPT !.quote = ISOTOPE_0]
    ELSE [v EXCEPT !.quote = @ - 2]

\* Decay_If_Unstable: a pack decays to what its first slot holds.
Decay_If_Unstable(v) ==
    IF v.sym = "frame" THEN Atom(ISOTOPE_0, "frame", "f")
    ELSE Atom(UNQUOTED_1, "integer", "1")

\* The kind a TYPE-WORD! is compared with.
VAL_TYPE(v) ==
    IF Is_Isotope(v) THEN "isotope"
    ELSE IF v.quote = UNQUOTED_1 THEN v.heart
    ELSE IF Is_Quasi(v) THEN "quasi"
    ELSE "quoted"

\* The items of a test array.
Type_Word(kind) == [k |-> "type-word", kind |-> kind, items |-> <<>>]

Quasi_Word(sym) == [k |-> "quasi", kind |-> sym, items |-> <<>>]

Quoted_Item == [k |-> "quoted", kind |-> "", items |-> <<>>]

Type_Block(array) == [k |-> "type-block", kind |-> "", items |-> array]

Type_Group(array) == [k |-> "type-group", kind |-> "", items |-> array]

\* a TAG!, by its spelling: Root_Opt_Tag is <opt>, Root_Void_Tag is <void>
Tag(name) == [k |-> "tag", kind |-> name, items |-> <<>>]

LeafTests == {Type_Word("integer"), Quasi_Word("a"), Quoted_Item}

InnerTests ==
    LET inner == SeqsUpTo(LeafTests, MaxInner)
    IN  {Type_Block(s) : s \in inner} \cup {Type_Group(s) : s \in inner}

TestArrays == SeqsUpTo(LeafTests \cup InnerTests, MaxTests)

TestedValues ==
    {Atom(UNQUOTED_1, "integer", "1"), Atom(ISOTOPE_0, "word", "a"),
     Atom(ISOTOPE_0, "word", "b"), Atom(ONEQUOTE_3, "integer", "1")}

\* One item of the loop of Typecheck_Value, for tests nested at most
\* `depth` deep: "succeeded", "failed", "continue" (the item was skipped)
\* or "fail" (an error was raised).  Typecheck_Loop is the loop itself and
\* what the routine returns after it: "true", "false" or "fail".
RECURSIVE Typecheck_Loop(_, _, _, _)
Typecheck_Item(item, v) ==
    IF item.k = "quasi"
       THEN IF ~Is_Isoword(v) THEN "continue"
            ELSE IF v.sym = item.kind THEN "succeeded"
            ELSE "failed"
    ELSE IF item.k \in {"type-block", "type-group"}
       THEN LET sub == Typecheck_Loop(item.items, 1,
                                      item.k = "type-group", v)
            IN  IF sub = "fail" THEN "fail"
                ELSE IF sub = "true" THEN "succeeded"
                ELSE "failed"
    ELSE IF item.k = "type-word"
       THEN IF item.kind = VAL_TYPE(v) THEN "succeeded" ELSE "failed"
    ELSE IF item.k = "tag"
       THEN IF item.kind = "opt" /\ ~Is_Nulled(v) THEN "failed"
            ELSE IF item.kind = "void" /\ ~Is_Void(v) THEN "failed"
            ELSE "succeeded"  \* break, then goto test_succeeded
    ELSE "fail"  \* QUOTED! and QUASI! not currently supported

Typecheck_Loop(array, i, match_all, v) ==
    IF i > Len(array)
       THEN IF match_all THEN "true" ELSE "false"
       ELSE LET r == Typecheck_Item(array[i], v)
            IN  IF r = "fail" THEN "fail"
                ELSE IF r = "succeeded" /\ ~match_all THEN "true"
                ELSE IF r = "failed" /\ match_all THEN "false"
                ELSE Typecheck_Loop(array, i + 1, match_all, v)

\* Typecheck_Value's switch on the kind of `tests`: a block matches any, a
\* group matches all, a parameter matches any of its array and everything
\* when it has none.
NoArray == <<[k |-> "none", kind |-> "", items |-> <<>>]>>

\* The switch without the case of a parameter that has no array
Typecheck_Tests_Always_Loop(kind, array, v) ==
    Typecheck_Loop(array, 1, kind = "type-group", v)

Typecheck_Tests(kind, array, v) ==
    IF kind = "parameter" /\ array = NoArray THEN "true"
    ELSE Typecheck_Loop(array, 1, kind = "type-group", v)

\* What the tests mean: a type word names the value's kind, a quasi-word
\* names an isotope word, a block is matched when one of its items is, a
\* group when all of them are.
RECURSIVE Matches(_, _)
Matches(item, v) ==
    IF item.k = "type-word" THEN item.kind = VAL_TYPE(v)
    ELSE IF item.k = "quasi" THEN Is_Isoword(v) /\ v.sym = item.kind
    ELSE IF item.k = "type-block"
       THEN \E i \in 1..Len(item.items) : Matches(item.items[i], v)
    ELSE IF item.k = "type-group"
       THEN \A i \in 1..Len(item.items) : Matches(item.items[i], v)
    ELSE FALSE

\* No item of the array raises an error when it is tried.
RECURSIVE Supported(_)
Supported(array) ==
    \A i \in 1..Len(array) :
        /\ array[i].k # "quoted"
        /\ Supported(array[i].items)

\* A caller gives a value and tests to Typecheck_Value.
CheckValue ==
    /\ tc.pc = "idle"
    /\ \E kind \in {"type-block", "type-group"}, array \in TestArrays,
          v \in TestedValues :
          tc' = [pc |-> "checked", kind |-> kind, array |-> array, v |-> v,
                 result |-> Typecheck_Tests(kind, array, v)]

\* A caller gives a value and tests with tags in them, or a parameter with
\* or without an array of such tests.
TagTests == {Tag("opt"), Tag("void"), Tag("end"), Type_Word("integer")}

TagArrays == SeqsUpTo(TagTests, MaxTests)

TagValues ==
    {Atom(ISOTOPE_0, "word", "null"), Atom(UNQUOTED_1, "void", ""),
     Atom(UNQUOTED_1, "integer", "1")}

CheckTagged ==
    /\ tc.pc = "idle"
    /\ \E kind \in {"type-block", "type-group", "parameter"},
          array \in TagArrays \cup {NoArray}, v \in TagValues :
          /\ array = NoArray => kind = "parameter"
          /\ tc' = [pc |-> "tested", kind |-> kind, array |-> array,
                    v |-> v, result |-> Typecheck_Tests(kind, array, v)]

\* A parameter: its class, the flags the check reads, and its test array.
Param(class, refinement, endable, array) ==
    [class |-> class, refinement |-> refinement, endable |-> endable,
     array |-> array]

ParamClasses == {"normal", "meta", "return"}

ParamTypes == {Type_Word("integer"), Type_Word("frame"), Type_Word("isotope")}

ParamArrays == {NoArray} \cup SeqsUpTo(ParamTypes, MaxTests)

ArgValues ==
    {Atom(q, "integer", "1") : q \in {UNQUOTED_1, ONEQUOTE_3}}
      \cup {Atom(q, "frame", "f") : q \in ISOTOPE_0..ONEQUOTE_3}
      \cup {Atom(q, "pack", s) : q \in {ISOTOPE_0, QUASI_2},
                                 s \in {"integer", "frame", "pack"}}
      \cup {Atom(q, "error", "e") : q \in {ISOTOPE_0, QUASI_2}}
      \cup {Atom(ISOTOPE_0, "word", "null"), Atom(UNQUOTED_1, "issue", "#")}

Is_Blackhole(v) == v.quote = UNQUOTED_1 /\ v.heart = "issue"

\* TYPE_CHECK(param, arg)
TYPE_CHECK(param, v) == Typecheck_Tests("parameter", param.array, v) = "true"

\* return_true / return_false: a meta argument is quoted again.
FinishBare(t, ok) == [t EXCEPT !.pc = "done", !.result = ok]

Finish(t, ok) ==
    [t EXCEPT !.pc = "done", !.result = ok,
              !.arg = IF t.unquoted THEN Meta_Quotify(@) ELSE @]

\* Typecheck_Coerce_Argument up to its first test or coercion.
Typecheck_Coerce_Argument(param, arg) ==
    LET t == [pc |-> "typecheck_again", param |-> param, arg |-> arg,
              arrived |-> arg, coerced |-> FALSE, unquoted |-> FALSE,
              ntests |-> 0, ncoerce |-> 0, retests |-> 0, result |-> FALSE]
    IN  IF param.refinement /\ Is_Nulled(arg) THEN Finish(t, TRUE)
        ELSE IF param.refinement /\ param.array = NoArray
           THEN Finish(t, Is_Blackhole(arg))
        ELSE IF param.class = "meta"
           THEN IF Is_Nulled(arg) THEN Finish(t, param.endable)
                ELSE IF ~Is_Quasi(arg) /\ ~Is_Quoted(arg)
                   THEN Finish(t, FALSE)
                ELSE [t EXCEPT !.arg = Meta_Unquotify_Undecayed(arg),
                               !.unquoted = TRUE]
        ELSE IF param.class = "return" THEN t
        ELSE IF ~Is_Stable(arg) THEN [t EXCEPT !.pc = "do_coercion"]
        ELSE t

CoerceCall ==
    /\ tc.pc = "idle"
    /\ \E class \in ParamClasses, refinement \in BOOLEAN, endable \in BOOLEAN,
          array \in ParamArrays, arg \in ArgValues :
          tc' = Typecheck_Coerce_Argument(
                    Param(class, refinement, endable, array), arg)

\* typecheck_again: the test, and where it leads.
Typecheck_Again ==
    /\ tc.pc = "typecheck_again"
    /\ LET t == [tc EXCEPT !.ntests = @ + 1,
                           !.retests = IF tc.coerced THEN @ + 1 ELSE @]
       IN  tc' = IF TYPE_CHECK(tc.param, tc.arg) THEN Finish(t, TRUE)
                 ELSE IF ~tc.coerced THEN [t EXCEPT !.pc = "do_coercion"]
                 ELSE Finish(t, FALSE)

\* A coercion was done: the flag keeps a second one from happening.
CoercedForgets(t, v) ==
    [t EXCEPT !.arg = v, !.ncoerce = @ + 1, !.pc = "typecheck_again"]

Coerced(t, v) ==
    [t EXCEPT !.arg = v, !.coerced = TRUE, !.ncoerce = @ + 1,
              !.pc = "typecheck_again"]

\* do_coercion
Do_Coercion ==
    /\ tc.pc = "do_coercion"
    /\ tc' = IF Is_Activation(tc.arg)
                THEN Coerced(tc, [tc.arg EXCEPT !.quote = UNQUOTED_1])
             ELSE IF Is_Raised(tc.arg) THEN Finish(tc, FALSE)
             ELSE IF Is_Pack(tc.arg) /\ Is_Pack_Undecayable(tc.arg)
                THEN Finish(tc, FALSE)
             ELSE IF Is_Isotope(tc.arg) /\ Is_Isotope_Unstable(tc.arg)
                THEN Coerced(tc, Decay_If_Unstable(tc.arg))
             ELSE Finish(tc, FALSE)

InitCheck ==
    /\ IdleStack
    /\ IdleBind
    /\ IdleLet
    /\ IdleHijack
    /\ IdlePath
    /\ IdleFile
    /\ IdleLoop
    /\ tc = NoTc

otherThanCheck ==
    <<stackVars, bindVars, letVars, hijackVars, pathVars, fileVars, loopVars>>

NextCheck ==
    \/ CheckValue /\ UNCHANGED otherThanCheck
    \/ CheckTagged /\ UNCHANGED otherThanCheck
    \/ CoerceCall /\ UNCHANGED otherThanCheck
    \/ Typecheck_Again /\ UNCHANGED otherThanCheck
    \/ Do_Coercion /\ UNCHANGED otherThanCheck

SpecCheck == InitCheck /\ [][NextCheck]_vars

\* C15: a type-test block accepts a value exactly when one of its tests
\* matches, and as soon as one does (a test after the first match is never
\* tried, so it cannot raise an error); a type-test group accepts a value
\* only when every one of its tests passes.
C15_BlockAnyGroupAll ==
    tc.pc = "checked" =>
        LET n == Len(tc.array)
            hits == {i \in 1..n : Matches(tc.array[i], tc.v)}
        IN  IF tc.kind = "type-block"
               THEN /\ tc.result = "true" => hits # {}
                    /\ (hits # {} /\ tc.result # "fail") => tc.result = "true"
                    /\ (\E i \in hits : Supported(SubSeq(tc.array, 1, i - 1)))
                          => tc.result = "true"
               ELSE tc.result = "true" => hits = 1..n

\* C16: an argument is tested at most twice and coerced at most once; a
\* coercion is followed by one test, and an argument rejected after it was
\* coerced is refused.
C16_OneCoercionOneRetest ==
    tc.pc \in {"typecheck_again", "do_coercion", "done"} =>
        /\ tc.ntests <= 2
        /\ tc.ncoerce <= 1
        /\ tc.retests <= tc.ncoerce
        /\ (tc.pc = "done" /\ tc.ncoerce = 1) => tc.retests = 1
        /\ (tc.pc = "do_coercion" /\ tc.ntests > 0) =>
              tc.ntests = 1 /\ tc.ncoerce = 0

\* A pack arrives for a normal parameter, or an activation is rejected: it
\* is coerced, tested again and rejected again.
C16_Witness ==
    /\ tc.pc = "done"
    /\ tc.ntests = 2
    /\ tc.ncoerce = 1
    /\ ~tc.result
    /\ tc.arg # tc.arrived

\* C17: an accepted argument of a meta parameter leaves the check exactly as
\* it arrived.
C17_MetaLeavesAsArrived ==
    (tc.pc = "done" /\ tc.param.class = "meta" /\ tc.result) =>
        tc.arg = tc.arrived

\* C17, amended: an accepted argument of a meta parameter that was unwrapped
\* leaves the check wrapped again in one level, and exactly as it arrived
\* unless it was coerced between the two tests.
C17_MetaLeavesWrapped ==
    (tc.pc = "done" /\ tc.param.class = "meta" /\ tc.result) =>
        /\ tc.ncoerce = 0 => tc.arg = tc.arrived
        /\ tc.unquoted => Is_Quasi(tc.arg) \/ Is_Quoted(tc.arg)

C17_Witness ==
    /\ tc.pc = "done"
    /\ tc.param.class = "meta"
    /\ tc.result
    /\ tc.unquoted
    /\ tc.ntests = 1
    /\ Is_Quasi(tc.arrived)
    /\ tc.arg = tc.arrived

-----------------------------------------------------------------------------
(* The file port: File_Actor of p-file.c over Open_File, Close_File,       *)
(* Read_File and Write_File, with the file as the operating system has it: *)
(* its size and the position of the open descriptor, which read() and      *)
(* write() use and advance.                                                *)

MaxSize == 3       \* bytes a file can have, and the furthest /SEEK

OsResults == {"ok", "error"}

\* Open_File, when open() succeeded: the port's offset starts at 0, and so
\* does the descriptor's position.
Open_File(f, d, flags) ==
    [f |-> [id |-> 1, offset |-> 0, flags |-> flags],
     d |-> [d EXCEPT !.pos = 0,
                     !.size = IF "O_TRUNC" \in flags THEN 0 ELSE @]]

\* Close_File
Close_File(f) ==
    [f EXCEPT !.id = FILEHANDLE_NONE, !.offset = FILEOFFSET_UNKNOWN]

Min(a, b) == IF a < b THEN a ELSE b

\* Read_File: read(file->id, buffer, length) reads at the descriptor's
\* position; the port's offset is advanced by what was read.
Read_File(f, d, length) ==
    LET n == IF d.pos >= d.size THEN 0 ELSE Min(length, d.size - d.pos)
    IN  [f |-> [f EXCEPT !.offset = @ + n],
         d |-> [d EXCEPT !.pos = @ + n],
         at |-> d.pos, n |-> n]

\* Write_File: write(file->id, data, size) writes at the descriptor's
\* position; the port's offset is advanced by what was written.
Write_File(f, d, size) ==
    [f |-> [f EXCEPT !.offset = @ + size],
     d |-> [d EXCEPT !.pos = @ + size,
                     !.size = IF d.pos + size > @ THEN d.pos + size ELSE @],
     at |-> d.pos, n |-> size]

\* The actor returns, raises or fails: the port and the file stay as they
\* are at that point.
Exit(f, d, l) ==
    /\ filereq' = f
    /\ disk' = [d EXCEPT !.last = l]

Started(verb) ==
    [NoLast EXCEPT !.verb = verb, !.was_open = filereq.id # FILEHANDLE_NONE]

\* cleanup_read / cleanup_write: a port opened for this call is closed, and
\* then the result decides.
Cleanup(f, d, l, temporarily, result, fails) ==
    IF temporarily
       THEN \E close \in OsResults :
               Exit(Close_File(f), d,
                    [l EXCEPT !.exit = IF result = "error" \/ close = "error"
                                          THEN "failed" ELSE "ok",
                              !.why = IF result # "error" /\ close = "error"
                                         THEN "os" ELSE @,
                              !.result = result])
       ELSE Exit(f, d, [l EXCEPT !.exit = IF result = "error"
                                             THEN (IF fails THEN "failed"
                                                   ELSE "raised")
                                             ELSE "ok",
                                 !.result = result])

\* case SYM_OPEN
OPEN ==
    \E flags \in {{"O_RDWR"}, {"O_RDONLY"}, {"O_WRONLY"},
                  {"O_RDWR", "O_CREAT", "O_TRUNC"}}, os \in OsResults :
       LET l == Started("open")
           o == Open_File(filereq, disk, flags)
       IN  IF filereq.id # FILEHANDLE_NONE \/ os = "error"
              THEN Exit(filereq, disk, [l EXCEPT !.exit = "failed"])
              ELSE Exit(o.f, o.d, l)

\* case SYM_CLOSE
CLOSE ==
    \E os \in OsResults :
       LET l == Started("close")
       IN  IF filereq.id = FILEHANDLE_NONE
              THEN Exit(filereq, disk, l)
              ELSE Exit(Close_File(filereq), disk,
                        [l EXCEPT !.exit = IF os = "error" THEN "failed"
                                           ELSE "ok"])

\* SYM_READ: "being at the end of file", of the port's offset.
End_Of_FileNever(f, file_size) == FALSE

End_Of_File(f, file_size) == file_size = f.offset

\* case SYM_READ: seek and part are -1 when the refinement is not used.
READ(seek, part) ==
    \E open \in OsResults, fstat \in OsResults, read \in OsResults :
       LET l == [Started("read") EXCEPT !.seek = seek]
           temporarily == filereq.id = FILEHANDLE_NONE
           o == IF temporarily THEN Open_File(filereq, disk, {"O_RDONLY"})
                ELSE [f |-> filereq, d |-> disk]
           f == IF seek > 0 THEN [o.f EXCEPT !.offset = seek] ELSE o.f
           len == IF part >= 0 THEN Min(part, o.d.size - f.offset)
                  ELSE o.d.size - f.offset
           r == Read_File(f, o.d, len)
       IN  IF temporarily /\ open = "error"
              THEN Exit(filereq, disk,
                        [l EXCEPT !.exit = "failed", !.why = "os"])
           ELSE IF seek = 0
              THEN Exit(o.f, o.d, [l EXCEPT !.exit = "failed", !.why = "seek"])
           ELSE IF fstat = "error"
              THEN Exit(f, o.d, [l EXCEPT !.exit = "failed", !.why = "os"])
           ELSE IF f.offset > o.d.size
              THEN Cleanup(f, o.d, [l EXCEPT !.why = "range"], temporarily,
                           "error", FALSE)
           ELSE IF End_Of_File(f, o.d.size)
              THEN Cleanup(f, o.d,
                           [l EXCEPT !.offset = f.offset, !.size = o.d.size],
                           temporarily, "null", FALSE)
           ELSE IF read = "error"
              THEN Cleanup(f, o.d, [l EXCEPT !.why = "os"], temporarily,
                           "error", FALSE)
           ELSE Cleanup(r.f, r.d,
                        [l EXCEPT !.at = r.at, !.n = r.n, !.offset = f.offset,
                                  !.size = o.d.size],
                        temporarily, "binary", FALSE)

\* case SYM_WRITE: seek is -1 when /SEEK is not used; `cr` is a TEXT! with a
\* carriage return in it, which Write_File refuses with a fail.
WRITE(seek, append, size, cr) ==
    \E open \in OsResults, fstat \in OsResults, write \in OsResults :
       LET l == [Started("write") EXCEPT !.append = append, !.seek = seek]
           temporarily == filereq.id = FILEHANDLE_NONE
           flags == IF seek >= 0 THEN {"O_WRONLY"}
                    ELSE IF append THEN {"O_WRONLY", "O_CREAT"}
                    ELSE {"O_WRONLY", "O_CREAT", "O_TRUNC"}
           o == IF temporarily THEN Open_File(filereq, disk, flags)
                ELSE [f |-> filereq, d |-> disk]
           f == IF append THEN [o.f EXCEPT !.offset = o.d.size]
                ELSE IF seek >= 0 THEN [o.f EXCEPT !.offset = seek]
                ELSE o.f
           w == Write_File(f, o.d, size)
       IN  IF seek >= 0 /\ append
              THEN Exit(filereq, disk,
                        [l EXCEPT !.exit = "failed", !.why = "usage"])
           ELSE IF ~temporarily
                   /\ filereq.flags \cap {"O_WRONLY", "O_RDWR"} = {}
              THEN Exit(filereq, disk,
                        [l EXCEPT !.exit = "failed", !.why = "usage"])
           ELSE IF temporarily /\ open = "error"
              THEN Exit(filereq, disk,
                        [l EXCEPT !.exit = "failed", !.why = "os"])
           ELSE IF fstat = "error"
              THEN Exit(o.f, o.d, [l EXCEPT !.exit = "failed", !.why = "os"])
           ELSE IF ~append /\ f.offset > o.d.size
              THEN Cleanup(f, o.d, [l EXCEPT !.why = "range"], temporarily,
                           "error", TRUE)
           ELSE IF cr
              THEN Exit(f, o.d, [l EXCEPT !.exit = "failed", !.why = "usage"])
           ELSE IF write = "error"
              THEN Cleanup(f, o.d, [l EXCEPT !.why = "os"], temporarily,
                           "error", TRUE)
           ELSE Cleanup(w.f, w.d,
                        [l EXCEPT !.at = w.at, !.n = w.n, !.offset = f.offset,
                                  !.size = o.d.size],
                        temporarily, "none", TRUE)

\* file->offset is a uint64_t, of OffsetBits bits here.  Unsigned is the
\* number a stored offset is (FILEOFFSET_UNKNOWN is the largest one), and
\* To_Offset is what is stored for a number, modulo 2^OffsetBits.
OffsetBits == 3

Modulus == 2 ^ OffsetBits

Unsigned(offset) ==
    IF offset = FILEOFFSET_UNKNOWN THEN Modulus - 1 ELSE offset

To_Offset(x) ==
    IF x % Modulus = Modulus - 1 THEN FILEOFFSET_UNKNOWN ELSE x % Modulus

\* case SYM_SKIP: the call's record keeps the offset it found and, as n,
\* the amount it was given.
SKIP(offset) ==
    LET l == [Started("skip") EXCEPT !.offset = filereq.offset, !.n = offset]
    IN  IF offset < 0 /\ -offset > Unsigned(filereq.offset)
           THEN Exit(filereq, disk, [l EXCEPT !.exit = "raised"])
           ELSE Exit([filereq EXCEPT
                         !.offset = To_Offset(Unsigned(@) + offset)],
                     disk, l)

\* case SYM_REFLECT, SYM_HEAD
HEAD == Exit([filereq EXCEPT !.offset = 0], disk, Started("head"))

\* case SYM_REFLECT, SYM_TAIL
TAIL ==
    \E fstat \in OsResults :
       LET l == Started("tail")
       IN  IF fstat = "error" \/ filereq.id = FILEHANDLE_NONE
              THEN Exit(filereq, disk, [l EXCEPT !.exit = "failed"])
              ELSE Exit([filereq EXCEPT !.offset = disk.size], disk, l)

\* case SYM_CLEAR: Truncate_File cuts the file at the port's offset.
CLEAR ==
    \E open \in OsResults, truncate \in OsResults, close \in OsResults :
       LET l == Started("clear")
           temporarily == filereq.id = FILEHANDLE_NONE
           o == IF temporarily THEN Open_File(filereq, disk, {"O_WRONLY"})
                ELSE [f |-> filereq, d |-> disk]
           d == IF truncate = "ok" THEN [o.d EXCEPT !.size = o.f.offset]
                ELSE o.d
           exit == IF truncate = "error" \/ (temporarily /\ close = "error")
                      THEN "failed" ELSE "ok"
       IN  IF temporarily /\ open = "error"
              THEN Exit(filereq, disk, [l EXCEPT !.exit = "failed"])
              ELSE Exit(IF temporarily THEN Close_File(o.f) ELSE o.f, d,
                        [l EXCEPT !.exit = exit])

Opened == filereq.id # FILEHANDLE_NONE

InitFile ==
    /\ IdleStack
    /\ IdleBind
    /\ IdleLet
    /\ IdleHijack
    /\ IdlePath
    /\ IdleCheck
    /\ filereq = NoFile
    /\ \E size \in 0..MaxSize : disk = [size |-> size, pos |-> 0, last |-> NoLast]
    /\ fs = NoNamed
    /\ IdleLoop

otherThanFile ==
    <<stackVars, bindVars, letVars, hijackVars, pathVars, checkVars, fs,
      loopVars>>

NextFile ==
    \/ OPEN /\ UNCHANGED otherThanFile
    \/ CLOSE /\ UNCHANGED otherThanFile
    \/ \E seek \in -1..MaxSize, part \in {-1, 1} :
          READ(seek, part) /\ UNCHANGED otherThanFile
    \/ \E seek \in -1..MaxSize, append \in BOOLEAN, size \in 1..2,
          cr \in BOOLEAN :
          /\ (IF Opened THEN disk.pos ELSE 0) + size <= MaxSize
          /\ WRITE(seek, append, size, cr)
          /\ filereq'.offset <= MaxSize + 1
          /\ UNCHANGED otherThanFile
    \/ \E offset \in {-1, 1} :
          /\ Opened
          /\ filereq.offset + offset <= MaxSize + 1
          /\ SKIP(offset)
          /\ UNCHANGED otherThanFile
    \/ Opened /\ HEAD /\ UNCHANGED otherThanFile
    \/ Opened /\ TAIL /\ UNCHANGED otherThanFile
    \/ (Opened => filereq.offset <= MaxSize) /\ CLEAR /\ UNCHANGED otherThanFile

SpecFile == InitFile /\ [][NextFile]_vars

\* case SYM_REFLECT, SYM_LENGTH: size - file->offset, a uint64_t, is given
\* to Init_Integer, which takes an int64_t: a difference of 2^64 - k is the
\* integer -k.  The call's record keeps the result as n.
LENGTH ==
    \E fstat \in OsResults :
       LET l == [Started("length") EXCEPT !.offset = filereq.offset,
                                         !.size = disk.size]
       IN  IF fstat = "error" \/ filereq.id = FILEHANDLE_NONE
              THEN Exit(filereq, disk, [l EXCEPT !.exit = "failed"])
              ELSE Exit(filereq, disk,
                        [l EXCEPT !.n = disk.size - Unsigned(filereq.offset)])

\* The verbs that move the offset or ask about it, on a port that is open
\* or closed.
NextPort ==
    \/ OPEN /\ UNCHANGED otherThanFile
    \/ CLOSE /\ UNCHANGED otherThanFile
    \/ \E offset \in {-2, -1, 1, 2} :
          /\ To_Offset(Unsigned(filereq.offset) + offset) <= MaxSize + 2
          /\ SKIP(offset)
          /\ UNCHANGED otherThanFile
    \/ HEAD /\ UNCHANGED otherThanFile
    \/ TAIL /\ UNCHANGED otherThanFile
    \/ LENGTH /\ UNCHANGED otherThanFile

SpecPort == InitFile /\ [][NextPort]_vars

-----------------------------------------------------------------------------
(* RENAME of the file port, over files that have names: `fs.names` gives   *)
(* the file each path names (0: none), `fs.sizes` the size of each file,   *)
(* `fs.fd` the file the open descriptor is on, and `fs.file` is the port's *)
(* FILEREQ with its path.                                                  *)

MaxFiles == 2      \* files there can be at a time

Paths == {"a", "b"}

OpenFlags ==
    {{"O_RDWR"}, {"O_RDONLY"}, {"O_WRONLY"}, {"O_RDWR", "O_CREAT", "O_TRUNC"}}

NoRename ==
    [verb |-> "none", exit |-> "ok", was_open |-> FALSE, flags |-> {},
     offset |-> -1, to |-> "", inode |-> 0, why |-> "none"]

\* open(path_utf8, flags, mode) of Open_File, the path being file->path: a
\* path that names no file is created with O_CREAT and is an error without.
Open_Path(r, flags, os) ==
    LET path == r.file.path
        inode == r.names[path]
        free == {i \in 1..MaxFiles : \A p \in Paths : r.names[p] # i}
        i == IF inode # 0 THEN inode ELSE CHOOSE x \in free : TRUE
        o == Open_File(r.file,
                       [size |-> IF inode # 0 THEN r.sizes[i] ELSE 0,
                        pos |-> 0],
                       flags)
    IN  IF os = "error" \/ (inode = 0 /\ "O_CREAT" \notin flags)
           THEN [ok |-> FALSE, r |-> r]
           ELSE [ok |-> TRUE,
                 r |-> [r EXCEPT !.file = [@ EXCEPT !.id = o.f.id,
                                                    !.offset = o.f.offset,
                                                    !.flags = o.f.flags],
                                 !.names[path] = i,
                                 !.sizes[i] = o.d.size,
                                 !.fd = [inode |-> i, pos |-> o.d.pos]]]

\* Close_File on the port of `r`
Close_Path(r) ==
    [r EXCEPT !.file = Close_File(@), !.fd = [inode |-> 0, pos |-> 0]]

\* rename(from_utf8, to_utf8) of Rename_File_Or_Directory, when it succeeds
Rename_File_Or_Directory(r, to) ==
    LET from == r.file.path
    IN  IF to = from THEN r
        ELSE [r EXCEPT !.names = [@ EXCEPT ![to] = r.names[from],
                                           ![from] = 0]]

\* case SYM_RENAME
RENAME(to) ==
    \E close \in OsResults, rename \in OsResults, open \in OsResults :
       LET f == fs.file
           was_open == f.id # FILEHANDLE_NONE
           l == [NoRename EXCEPT !.verb = "rename", !.was_open = was_open,
                                 !.flags = f.flags, !.offset = f.offset,
                                 !.to = to, !.inode = fs.names[f.path]]
           closed == IF was_open THEN Close_Path(fs) ELSE fs
           renames == rename = "ok" /\ fs.names[f.path] # 0
           moved == IF renames THEN Rename_File_Or_Directory(closed, to)
                    ELSE closed
           o == Open_Path(moved, l.flags, open)
       IN  IF was_open /\ close = "error"
              THEN fs' = [closed EXCEPT !.last =
                             [l EXCEPT !.exit = "failed", !.why = "os"]]
           ELSE IF was_open /\ ~renames
              THEN fs' = [o.r EXCEPT !.last =
                             [l EXCEPT !.exit = "failed", !.why = "os"]]
           ELSE IF was_open /\ ~o.ok
              THEN fs' = [moved EXCEPT !.last =
                             [l EXCEPT !.exit = "failed",
                                       !.why = IF open = "error" THEN "os"
                                               ELSE "gone"]]
           ELSE IF was_open
              THEN fs' = [o.r EXCEPT !.file.offset = l.offset,
                                     !.file.path = to,
                                     !.last = l]
           ELSE IF ~renames
              THEN fs' = [moved EXCEPT !.last =
                             [l EXCEPT !.exit = "failed", !.why = "os"]]
           ELSE fs' = [moved EXCEPT !.file.path = to, !.last = l]

\* case SYM_OPEN, on the port over named files
OPEN_Path(flags) ==
    \E os \in OsResults :
       LET l == [NoRename EXCEPT !.verb = "open"]
           o == Open_Path(fs, flags, os)
       IN  IF fs.file.id # FILEHANDLE_NONE \/ ~o.ok
              THEN fs' = [fs EXCEPT !.last = [l EXCEPT !.exit = "failed"]]
              ELSE fs' = [o.r EXCEPT !.last = l]

\* case SYM_SKIP, on the port over named files
SKIP_Path(offset) ==
    LET l == [NoRename EXCEPT !.verb = "skip"]
    IN  IF offset < 0 /\ -offset > fs.file.offset
           THEN fs' = [fs EXCEPT !.last = [l EXCEPT !.exit = "raised"]]
           ELSE fs' = [fs EXCEPT !.file.offset = @ + offset, !.last = l]

\* case SYM_CLOSE, on the port over named files
CLOSE_Path ==
    LET l == [NoRename EXCEPT !.verb = "close"]
    IN  IF fs.file.id = FILEHANDLE_NONE
           THEN fs' = [fs EXCEPT !.last = l]
           ELSE fs' = [Close_Path(fs) EXCEPT !.last = l]

InitRename ==
    /\ IdleStack
    /\ IdleBind
    /\ IdleLet
    /\ IdleHijack
    /\ IdlePath
    /\ IdleCheck
    /\ filereq = NoFile
    /\ disk = NoDisk
    /\ IdleLoop
    /\ \E size \in 0..MaxSize :
          fs = [file |-> [id |-> FILEHANDLE_NONE,
                          offset |-> FILEOFFSET_UNKNOWN,
                          flags |-> {}, path |-> "a"],
                names |-> [p \in Paths |-> IF p = "a" THEN 1 ELSE 0],
                sizes |-> [i \in 1..MaxFiles |-> IF i = 1 THEN size ELSE 0],
                fd |-> [inode |-> 0, pos |-> 0],
                last |-> NoRename]

otherThanRename ==
    <<stackVars, bindVars, letVars, hijackVars, pathVars, checkVars,
      filereq, disk, loopVars>>

NextRename ==
    \/ \E flags \in OpenFlags : OPEN_Path(flags) /\ UNCHANGED otherThanRename
    \/ \E offset \in {-1, 1} :
          /\ fs.file.id # FILEHANDLE_NONE
          /\ fs.file.offset + offset <= MaxSize
          /\ SKIP_Path(offset)
          /\ UNCHANGED otherThanRename
    \/ CLOSE_Path /\ UNCHANGED otherThanRename
    \/ \E to \in Paths : RENAME(to) /\ UNCHANGED otherThanRename

SpecRename == InitRename /\ [][NextRename]_vars

-----------------------------------------------------------------------------
(* A loop and its variables: Virtual_Bind_Deep_To_New_Context makes the    *)
(* context of the loop variables from the loop's spec and binds the body   *)
(* to it; the loop then gives the variables the data, one pass after the   *)
(* other.  The words of the spec and of the body are words of user code,   *)
(* attached to the User module.                                            *)

MaxData == 2       \* values the loop is given

LoopValues == {10, 20}

\* The items a spec can have: a word or a quoted word ('x)
LoopItems ==
    {[kind |-> kind, sym |-> symbol] :
        kind \in {"WORD", "QUOTED"}, symbol \in Symbols}

\* A spec is one item or a block of items
LoopSpecs ==
    {[block |-> FALSE, items |-> <<item>>] : item \in LoopItems}
    \cup {[block |-> TRUE, items |-> array] :
             array \in SeqsUpTo(LoopItems, MaxSpec) \ {<<>>}}

\* A word of user code
User_Word(symbol) ==
    [sym |-> symbol, heart |-> "WORD", binding |-> User_Context, index |-> 0]

\* The while loop over the items: a word gets a new variable and an index
\* in the binder; a quoted word gets a slot that holds the word itself,
\* flagged BIND_NOTE_REUSE, and -1 in the binder.
RECURSIVE Bind_Slots(_, _, _, _, _)
Bind_Slots(array, i, binder, rebinding, acc) ==
    IF i > Len(array) THEN acc
    ELSE LET item == array[i]
             stored == binder[item.sym]
         IN  IF item.kind = "WORD"
                THEN Bind_Slots(
                         array, i + 1,
                         IF stored = 0 THEN [binder EXCEPT ![item.sym] = i]
                         ELSE binder,
                         rebinding,
                         [slots |-> Append(acc.slots,
                                           [sym |-> item.sym, reuse |-> FALSE,
                                            cell |-> NoWord, val |-> Unset]),
                          duplicate |-> acc.duplicate \/ stored # 0])
                ELSE Bind_Slots(
                         array, i + 1,
                         IF rebinding /\ stored = 0
                            THEN [binder EXCEPT ![item.sym] = -1]
                            ELSE binder,
                         rebinding,
                         [slots |-> Append(acc.slots,
                                           [sym |-> item.sym, reuse |-> TRUE,
                                            cell |-> User_Word(item.sym),
                                            val |-> Unset]),
                          duplicate |-> \/ acc.duplicate
                                        \/ rebinding /\ stored > 0])

\* Every item taken as a plain word
Virtual_Bind_Deep_To_New_Context_NoReuse(spec) ==
    LET array == [i \in 1..Len(spec.items) |->
                    [spec.items[i] EXCEPT !.kind = "WORD"]]
        b == Bind_Slots(array, 1, [symbol \in Symbols |-> 0], TRUE,
                        [slots |-> <<>>, duplicate |-> FALSE])
    IN  [c |-> b.slots, rebinding |-> TRUE, fails |-> b.duplicate]

Virtual_Bind_Deep_To_New_Context(spec) ==
    LET rebinding == \E i \in 1..Len(spec.items) : spec.items[i].kind = "WORD"
        b == Bind_Slots(spec.items, 1, [symbol \in Symbols |-> 0], rebinding,
                        [slots |-> <<>>, duplicate |-> FALSE])
    IN  [c |-> b.slots, rebinding |-> rebinding,
         fails |-> rebinding /\ b.duplicate]

\* The context of the model that has these keys and these flags, or 0
Context_Of(slots) ==
    LET fits(c) ==
            /\ Len(CTX_KEYS(c)) = Len(slots)
            /\ \A i \in 1..Len(slots) :
                  /\ CTX_KEYS(c)[i] = slots[i].sym
                  /\ BIND_NOTE_REUSE(c, i) = slots[i].reuse
        all == {c \in {Obj_Context, Derived_Context} : fits(c)}
    IN  IF all = {} THEN 0 ELSE CHOOSE c \in all : TRUE

\* The loop gives its variables the values of one pass: a variable of the
\* context is written in its slot, and for a slot that holds a quoted word
\* the variable is the one that word is bound to.
RECURSIVE Write_Vars(_, _, _, _, _)
Write_Vars(h, c, i, data, last) ==
    IF i > Len(c) THEN [h |-> h, c |-> c, last |-> last]
    ELSE LET v == IF i <= Len(data) THEN data[i] ELSE 0
             r == Get_Word_Container(h, c[i].cell, 0, "ATTACH_WRITE")
         IN  IF c[i].reuse
                THEN Write_Vars([r.h EXCEPT ![r.c].val = v], c, i + 1, data,
                                [last EXCEPT ![c[i].sym] = v])
                ELSE Write_Vars(h, [c EXCEPT ![i].val = v], i + 1, data,
                                [last EXCEPT ![c[i].sym] = v])

\* What a word of user code gives when it is looked up with a specifier
Value_Of(h, c, symbol, specifier) ==
    LET r == Get_Word_Container(h, User_Word(symbol), specifier,
                                "ATTACH_READ")
    IN  IF r.c = 0 THEN Unset
        ELSE IF r.c > 0 THEN r.h[r.c].val
        ELSE c[r.i].val

\* The loop is called: the context is made and the body is bound to it.
LoopCall(spec, data) ==
    /\ loop.pc = "start"
    /\ LET v == Virtual_Bind_Deep_To_New_Context(spec)
           ctx == Context_Of(v.c)
       IN  /\ v.fails \/ ~v.rebinding \/ ctx # 0
           /\ heap' = IF v.rebinding /\ ~v.fails
                         THEN Make_Use_Core(heap, ctx, 0, "WORD", FALSE)
                         ELSE heap
           /\ loop' = [loop EXCEPT
                         !.pc = IF v.fails THEN "failed" ELSE "bound",
                         !.spec = spec,
                         !.c = v.c,
                         !.body = IF v.rebinding /\ ~v.fails
                                     THEN Len(heap) + 1 ELSE 0,
                         !.data = data]
    /\ UNCHANGED <<specX, specY, merged, word, named, look>>

\* One pass of the loop, or its end when the data is used up.
LoopPass ==
    /\ loop.pc = "bound"
    /\ LET n == Len(loop.c)
           w == Write_Vars(heap, loop.c, 1, loop.data, loop.last)
       IN  IF loop.data = <<>>
              THEN /\ loop' = [loop EXCEPT !.pc = "done"]
                   /\ UNCHANGED heap
              ELSE /\ heap' = w.h
                   /\ loop' = [loop EXCEPT
                                 !.c = w.c,
                                 !.last = w.last,
                                 !.passes = @ + 1,
                                 !.data = SubSeq(@, n + 1, Len(@))]
    /\ UNCHANGED <<specX, specY, merged, word, named, look>>

\* The variables the User module has before the loop: `x: 1` was run for
\* some of the symbols.
InitLoop ==
    /\ IdleStack
    /\ IdleLet
    /\ IdleHijack
    /\ IdlePath
    /\ IdleCheck
    /\ IdleFile
    /\ specX = 0 /\ specY = 0
    /\ merged = NoMerge
    /\ word = NoWord /\ named = UNBOUND
    /\ look = NoLook
    /\ \E defined \in SUBSET Symbols :
          /\ heap = [i \in 1..Cardinality(defined) |->
                       [Alloc_Singular("PATCH",
                                       IF "a" \in defined /\ i = 1 THEN "a"
                                       ELSE "b",
                                       UNBOUND, User_Context, FALSE, FALSE)
                           EXCEPT !.val = 1]]
          /\ loop = [pc |-> "start", spec |-> [block |-> FALSE, items |-> <<>>],
                     c |-> <<>>, body |-> 0, data |-> <<>>, passes |-> 0,
                     before |-> [symbol \in Symbols |->
                                    IF symbol \in defined THEN 1 ELSE Unset],
                     last |-> [symbol \in Symbols |-> Unset]]
          /\ par = NoPar
          /\ vb = NoVb

otherThanLoop ==
    <<stackVars, letVars, hijackVars, pathVars, checkVars, fileVars, par, vb>>

NextLoop ==
    \/ \E spec \in LoopSpecs, data \in SeqsUpTo(LoopValues, MaxData) :
          LoopCall(spec, data) /\ UNCHANGED otherThanLoop
    \/ LoopPass /\ UNCHANGED otherThanLoop

SpecLoop == InitLoop /\ [][NextLoop]_vars

C24_WitnessBlock ==
    /\ loop.pc = "bound"
    /\ loop.body # 0
    /\ loop.passes = 1
    /\ loop.spec.items[2].kind = "QUOTED"
    /\ loop.before["a"] = 1
    /\ Value_Of(heap, loop.c, "a", 0) = 1
    /\ Value_Of(heap, loop.c, "a", loop.body) = loop.last["a"]
    /\ Value_Of(heap, loop.c, "b", loop.body) = loop.last["b"]

\* C18: a port that READ, WRITE or CLEAR found closed is closed again when
\* the operation is over, however it ends.
C18_TemporaryOpenIsClosed ==
    (disk.last.verb \in {"read", "write", "clear"} /\ ~disk.last.was_open)
        => ~Opened

\* C19: the offset of an open port is the position at which the next read()
\* or write() takes place, and every transfer that was made without /SEEK
\* took place at the offset the port had.
C19_OffsetIsFilePosition ==
    /\ Opened => filereq.offset = disk.pos
    /\ disk.last.at # -1 => disk.last.at = disk.last.offset

\* C20: the bytes of a WRITE/APPEND land at the end of the file as it was,
\* and the port's offset is then the end of what was appended.
C20_AppendLandsAtEnd ==
    (disk.last.verb = "write" /\ disk.last.append /\ disk.last.at # -1) =>
        /\ disk.last.offset = disk.last.size
        /\ disk.last.at = disk.last.size
        /\ disk.size = disk.last.size + disk.last.n
        /\ Opened => /\ filereq.offset = disk.size
                     /\ disk.pos = disk.size

\* C21: READ/SEEK and WRITE/SEEK take every address from 0 to the size of
\* the file, 0 being the first byte: unless the operating system or the
\* other arguments stand in the way the call goes through, and what it
\* transfers it transfers at that address.
C21_SeekIsZeroBased ==
    (/\ disk.last.verb \in {"read", "write"}
     /\ disk.last.seek >= 0
     /\ disk.last.seek <= disk.size
     /\ disk.last.why \notin {"os", "usage"}) =>
        /\ disk.last.exit = "ok"
        /\ disk.last.at # -1 => disk.last.at = disk.last.seek

\* C23: a READ that finds the port's position at the end of the file gives
\* null and transfers nothing; and null is given in no other case.
C23_ReadAtEndIsNull ==
    disk.last.verb = "read" =>
        /\ (disk.last.offset # -1 /\ disk.last.offset = disk.last.size) =>
               /\ disk.last.result = "null"
               /\ disk.last.at = -1
               /\ disk.last.exit \in {"ok", "failed"}
        /\ disk.last.result = "null" => disk.last.offset = disk.last.size

C23_Witness ==
    /\ disk.last.verb = "read"
    /\ disk.last.was_open
    /\ disk.last.result = "null"
    /\ disk.last.exit = "ok"
    /\ disk.last.size > 0

\* C22: a RENAME of an open port that the operating system lets through
\* leaves the port open on the file that was renamed, with the flags and
\* the offset it had, and with the new name as its path.
C22_RenameReopensRenamed ==
    (/\ fs.last.verb = "rename"
     /\ fs.last.was_open
     /\ fs.last.why # "os") =>
        /\ fs.last.exit = "ok"
        /\ fs.file.id # FILEHANDLE_NONE
        /\ fs.fd.inode = fs.last.inode
        /\ fs.names[fs.last.to] = fs.last.inode
        /\ fs.file.flags = fs.last.flags
        /\ fs.file.offset = fs.last.offset
        /\ fs.file.path = fs.last.to

\* C25: a word bound to a module that has no variable of that name, looked
\* up where no virtual binding gives one: in write mode the module gets a
\* new variable, which is the result, unless the module is Lib or Sys, for
\* which there is no result and no variable; in read mode the result is
\* Lib's variable of that name, if Lib has one, and nothing is made.
C25_ModuleMiss ==
    (/\ named \in Modules
     /\ word.binding = named
     /\ Hitch_Patch(heap, word.sym, named) = 0) =>
        \A s \in Specifiers \ {Frame_Context} :
           (s # 0 => Virtual_Walk(heap, s, word.sym, word.heart)[1] = 0) =>
              LET w == Get_Word_Container(heap, word, s, "ATTACH_WRITE")
                  r == Get_Word_Container(heap, word, s, "ATTACH_READ")
              IN  /\ named \notin {Lib_Context, Sys_Context} =>
                        /\ w.c = Len(heap) + 1
                        /\ Len(w.h) = Len(heap) + 1
                        /\ Hitch_Patch(w.h, word.sym, named) = w.c
                  /\ named \in {Lib_Context, Sys_Context} =>
                        /\ w.c = 0
                        /\ w.h = heap
                  /\ r.c = Hitch_Patch(heap, word.sym, Lib_Context)
                  /\ r.h = heap
                  /\ r.w = word

\* A write-mode lookup gave a module that is neither Lib nor Sys the
\* variable it did not have.
C25_Witness ==
    /\ look.n >= 1
    /\ look.mode = "ATTACH_WRITE"
    /\ look.effect = "attached"
    /\ named \in Modules \ {Lib_Context, Sys_Context}
    /\ heap[look.first[1]].over = named
    /\ heap[look.first[1]].sym = word.sym

\* A read-mode lookup of a word of the User module gave Lib's variable.
C25_WitnessRead ==
    /\ look.n >= 1
    /\ look.mode = "ATTACH_READ"
    /\ named = User_Context
    /\ word.binding = named
    /\ Hitch_Patch(heap, word.sym, named) = 0
    /\ look.first[1] # 0
    /\ look.first[1] = Hitch_Patch(heap, word.sym, Lib_Context)

\* C27: a read-mode resolution of a word leaves the word's cell, and so the
\* frozen array that holds it, bit for bit as it was.  Get_Word_Container
\* is handed the cell alone and tests no flag of the array the cell is in,
\* so each cell here stands for a cell of a frozen array.
C27_ReadLeavesFrozenCell ==
    (look.n >= 1 /\ look.mode = "ATTACH_READ") => look.effect # "cached"

\* Where the next links lead from s in at most fuel steps: null (0), a
\* varlist, or the stub the walk was at when the steps ran out
RECURSIVE Follow_Next(_, _, _)
Follow_Next(h, s, fuel) ==
    IF s <= 0 \/ fuel = 0 THEN s
    ELSE Follow_Next(h, NextVirtual(h, s), fuel - 1)

\* C28: specifier chains are acyclic: from every LET and USE stub the next
\* links reach null or the frame's varlist, in no more steps than there are
\* stubs, and each link leads to a stub made earlier.
C28_ChainsAreAcyclic ==
    \A s \in 1..Len(heap) :
        (IS_LET(heap, s) \/ IS_USE(heap, s)) =>
            /\ Follow_Next(heap, s, Len(heap)) \in {0, Frame_Context}
            /\ NextVirtual(heap, s) < s

\* A merge that made a stub, whose chain is three stubs long and ends at
\* the frame's varlist
C28_Witness ==
    /\ merged # NoMerge
    /\ merged.m > merged.x
    /\ merged.m > merged.y
    /\ Follow_Next(heap, merged.m, 2) > 0
    /\ Follow_Next(heap, merged.m, 3) = Frame_Context

\* The claim as it was put: a test whose block is empty accepts the value
C29_EmptyBlockAcceptsAll ==
    (/\ tc.pc = "tested"
     /\ tc.kind = "type-block"
     /\ tc.array = <<>>) => tc.result = "true"

\* C29: a parameter that has no test array accepts every value; an empty
\* BLOCK! or TYPE-BLOCK! given as the test accepts no value, and an empty
\* GROUP! or TYPE-GROUP! accepts every value.
C29_NoArrayAcceptsAll ==
    tc.pc = "tested" =>
        /\ (tc.kind = "parameter" /\ tc.array = NoArray) => tc.result = "true"
        /\ (tc.kind = "type-block" /\ tc.array = <<>>) => tc.result = "false"
        /\ (tc.kind = "type-group" /\ tc.array = <<>>) => tc.result = "true"

\* A parameter with no array was given a value that is no null
C29_Witness ==
    /\ tc.pc = "tested"
    /\ tc.kind = "parameter"
    /\ tc.array = NoArray
    /\ ~Is_Nulled(tc.v)
    /\ tc.result = "true"

\* An empty block was given a value
C29_WitnessEmpty ==
    /\ tc.pc = "tested"
    /\ tc.kind = "type-block"
    /\ tc.array = <<>>
    /\ tc.result = "false"

\* What an item of a block of tags and type words permits
Permits(item, v) ==
    IF item.k = "tag"
       THEN \/ item.kind = "opt" /\ Is_Nulled(v)
            \/ item.kind = "void" /\ Is_Void(v)
       ELSE item.kind = VAL_TYPE(v)

\* C30: a block of tags and type words accepts a value exactly when one of
\* its items permits it: <opt> permits null, <void> permits void, a type
\* word permits its kind, and no other tag (<end> is one) permits a value.
C30_TagsAreSentinels ==
    (tc.pc = "tested" /\ tc.kind = "type-block") =>
        (tc.result = "true"
            <=> \E i \in 1..Len(tc.array) : Permits(tc.array[i], tc.v))

\* C31: a PATH! whose first element is inert is inert: the call returns
\* without a throw or an error, the output cell holds the path, no element
\* of the path has been walked, and the level stack and the data stack are
\* the ones the call found.
C31_InertHeadIsInert ==
    (/\ fn = "path"
     /\ opt.kind = "path"
     /\ opt.len >= 1
     /\ Len(items) = opt.len
     /\ items[1] = "inert") =>
        /\ pc = "returned"
        /\ out = "path"
        /\ npush = 0
        /\ levels = entryLevels
        /\ dstack = entryDstack
        /\ Len(dstack) = mark

\* A path with an inert head and a group behind it was evaluated, with
\* cells on the data stack
C31_Witness ==
    /\ fn = "path"
    /\ opt.kind = "path"
    /\ opt.len = 2
    /\ items = <<"inert", "group">>
    /\ pc = "returned"
    /\ out = "path"
    /\ dstack # <<>>

-----------------------------------------------------------------------------
(* FOR-PARALLEL, as the loop tests define it: a LAMBDA whose body is one   *)
(* WHILE.  The condition holds while one of the two blocks is not empty;   *)
(* the body of the WHILE sets the variables from the heads of the blocks,  *)
(* runs the body it was given, and moves both blocks on with ELIDE, so     *)
(* that what the given body gave stays the result.                         *)

MaxBlk == 3        \* items of each block given to FOR-PARALLEL

Null == 0          \* null, as a variable's value and as a result
None == -1         \* SET_NONE(D_OUT): WHILE's result before its body ran
Data1 == [i \in 1..MaxBlk |-> 10 + i]
Data2 == [i \in 1..MaxBlk |-> i]
BodyValues == {10, 20}

\* A block at a position, by the items from there on, or the BLANK! `_`
Block_At(rest) == [k |-> "block", rest |-> rest]

Blank == [k |-> "blank", rest |-> <<>>]

\* EMPTY?: _ and [] are empty
Is_Empty(b) == b.k = "blank" \/ b.rest = <<>>

\* try first blk
Try_First(b) == IF Is_Empty(b) THEN Null ELSE Head(b.rest)

\* (try next blk) else '_ : NEXT gives null at the tail only
Next_Else_Blank(b) == IF Is_Empty(b) THEN Blank ELSE Block_At(Tail(b.rest))

\* A condition that holds while both blocks have items
Par_Cond_Both(b1, b2) == (~Is_Empty(b1)) /\ (~Is_Empty(b2))

\* (not empty? blk1) or (not empty? blk2)
Par_Cond(b1, b2) == (~Is_Empty(b1)) \/ (~Is_Empty(b2))

\* The call: Lambda_Dispatcher runs the lambda's block, which is the WHILE;
\* the WHILE starts with none as its result.
for_parallel(n1, n2) ==
    /\ par.pc = "idle"
    /\ par' = [pc |-> "cond", n1 |-> n1, n2 |-> n2,
               blk1 |-> Block_At(SubSeq(Data1, 1, n1)),
               blk2 |-> Block_At(SubSeq(Data2, 1, n2)),
               x |-> Null, y |-> Null, D_OUT |-> None, runs |-> 0,
               kept |-> <<>>, lastbody |-> None]

\* WHILE evaluates its condition: when it is false WHILE returns D_OUT, and
\* the lambda returns what its block gave.
While_Cond ==
    /\ par.pc = "cond"
    /\ par' = IF Par_Cond(par.blk1, par.blk2)
                 THEN [par EXCEPT !.pc = "unpack"]
                 ELSE [par EXCEPT !.pc = "returned"]

\* (vars): unpack [(try first blk1) (try first blk2)]
While_Unpack ==
    /\ par.pc = "unpack"
    /\ par' = [par EXCEPT !.pc = "do",
                          !.x = Try_First(par.blk1),
                          !.y = Try_First(par.blk2),
                          !.D_OUT = Try_First(par.blk1)]

\* do body: the body gives a value, or it throws a BREAK, which WHILE
\* catches and returns from
While_Do ==
    /\ par.pc = "do"
    /\ \/ \E v \in BodyValues :
             par' = [par EXCEPT !.pc = "elide", !.D_OUT = v,
                                !.lastbody = v, !.runs = @ + 1,
                                !.kept = Append(@, <<par.x, par.y>>)]
       \/ par' = [par EXCEPT !.pc = "broke", !.D_OUT = Null,
                             !.runs = @ + 1,
                             !.kept = Append(@, <<par.x, par.y>>)]

\* elide blk1: ((try next blk1) else '_), and the same for blk2: the result
\* of the WHILE's body stays what `do body` gave
While_Elide ==
    /\ par.pc = "elide"
    /\ par' = [par EXCEPT !.pc = "cond",
                          !.blk1 = Next_Else_Blank(par.blk1),
                          !.blk2 = Next_Else_Blank(par.blk2)]

InitParallel ==
    /\ IdleStack
    /\ IdleBind
    /\ IdleLet
    /\ IdleHijack
    /\ IdlePath
    /\ IdleCheck
    /\ IdleFile
    /\ loop = NoLoop
    /\ par = NoPar
    /\ vb = NoVb

otherThanPar ==
    <<stackVars, bindVars, letVars, hijackVars, pathVars, checkVars,
      fileVars, loop, vb>>

NextParallel ==
    \/ \E n1 \in 0..MaxBlk, n2 \in 0..MaxBlk :
          for_parallel(n1, n2) /\ UNCHANGED otherThanPar
    \/ While_Cond /\ UNCHANGED otherThanPar
    \/ While_Unpack /\ UNCHANGED otherThanPar
    \/ While_Do /\ UNCHANGED otherThanPar
    \/ While_Elide /\ UNCHANGED otherThanPar

SpecParallel == InitParallel /\ [][NextParallel]_vars

\* What the body saw at position i of blocks of n1 and n2 items
Seen(i, n1, n2) ==
    <<IF i <= n1 THEN Data1[i] ELSE Null, IF i <= n2 THEN Data2[i] ELSE Null>>

C33_ClosedPortIsReset ==
    /\ (~Opened) => filereq.offset = FILEOFFSET_UNKNOWN
    /\ Opened => filereq.offset # FILEOFFSET_UNKNOWN

\* C36: SKIP moves the port's offset by the amount it is given, exactly:
\* a skip that would end before the start of the file raises an error and
\* leaves the offset as it was, and any other skip leaves the offset the
\* sum of the old offset and the amount, which is never a wrapped one.
C36_SkipIsExact ==
    disk.last.verb = "skip" =>
        LET before == Unsigned(disk.last.offset)
            amount == disk.last.n
        IN  IF before + amount < 0
               THEN /\ disk.last.exit = "raised"
                    /\ filereq.offset = disk.last.offset
               ELSE /\ disk.last.exit = "ok"
                    /\ Unsigned(filereq.offset) = before + amount

\* C37: LENGTH of a file port is the number of bytes from the offset to
\* the end of the file, and zero when the offset is at the end or past it:
\* it is never negative.
C37_LengthIsClipped ==
    (disk.last.verb = "length" /\ disk.last.exit = "ok") =>
        disk.last.n = (IF disk.last.size > disk.last.offset
                          THEN disk.last.size - disk.last.offset
                          ELSE 0)

-----------------------------------------------------------------------------
(* Virtual_Bind_Deep_To_New_Context, item by item: the keys it appends,    *)
(* the binder it uses to find duplicates, the dummy keys it gives to       *)
(* BLANK! items, and the way it ends.  A build with asserts stops at an    *)
(* assert that does not hold; a build without them goes on.                *)

MaxPrefix == 3     \* words and quoted words at the head of a spec
MaxBlanks == 10    \* BLANK! items behind them

SYM_DUMMY1 == 1
SYM_DUMMY9 == 9

DummyNames ==
    <<"dummy1", "dummy2", "dummy3", "dummy4", "dummy5", "dummy6", "dummy7",
      "dummy8", "dummy9">>

Canon_Symbol(id) == DummyNames[id]

BinderSymbols == Symbols \cup {DummyNames[id] : id \in 1..Len(DummyNames)}

Blank_Item == [kind |-> "BLANK", sym |-> ""]

\* The specs tried: words and quoted words, then blanks
BinderSpecs ==
    {[block |-> TRUE, items |-> prefix \o [k \in 1..n |-> Blank_Item]] :
        prefix \in SeqsUpTo(LoopItems, MaxPrefix), n \in 0..MaxBlanks}
    \cup {[block |-> FALSE, items |-> <<item>>] :
             item \in LoopItems \cup {Blank_Item}}

\* The entry: the spec is counted and walked for errors, and the binder is
\* made when a word is to be rebound.
vb_initial_entry(spec, asserts) ==
    /\ vb.pc = "idle"
    /\ LET rebinding ==
               \E k \in 1..Len(spec.items) : spec.items[k].kind = "WORD"
           t == [pc |-> "item", spec |-> spec, asserts |-> asserts,
                 rebinding |-> rebinding, in_effect |-> rebinding,
                 binder |-> [symbol \in BinderSymbols |-> 0],
                 index |-> 1, c |-> <<>>, dummy_sym |-> SYM_DUMMY1,
                 duplicate |-> "", why |-> "none"]
       IN  vb' = IF spec.items = <<>>  \* num_vars == 0: fail (spec)
                    THEN [t EXCEPT !.pc = "failed", !.why = "empty",
                                   !.in_effect = FALSE]
                    ELSE t

\* add_binding_for_check
Add_Binding_For_Check(t, symbol) ==
    IF ~t.rebinding THEN t
    ELSE IF t.binder[symbol] > 0
       THEN [t EXCEPT !.duplicate = IF @ = "" THEN symbol ELSE @]
    ELSE IF t.binder[symbol] = 0
       THEN [t EXCEPT !.binder[symbol] = -1]
    ELSE t  \* assert(stored == -1)

Append_Key(t, symbol, reuse) ==
    [t EXCEPT !.c = Append(@, [sym |-> symbol, reuse |-> reuse]),
              !.index = @ + 1]

\* One turn of `while (index <= num_vars)`
vb_item ==
    /\ vb.pc = "item"
    /\ vb.index <= Len(vb.spec.items)
    /\ LET item == vb.spec.items[vb.index]
       IN  vb' =
             IF item.kind = "BLANK"
                THEN IF vb.dummy_sym = SYM_DUMMY9
                        THEN [vb EXCEPT !.pc = "failed", !.why = "blanks"]
                        ELSE Add_Binding_For_Check(
                                 Append_Key([vb EXCEPT !.dummy_sym = @ + 1],
                                            Canon_Symbol(vb.dummy_sym), TRUE),
                                 Canon_Symbol(vb.dummy_sym))
             ELSE IF item.kind = "WORD"
                THEN \* Try_Add_Binder_Index(&binder, symbol, index)
                     IF vb.binder[item.sym] # 0
                        THEN [Append_Key(vb, item.sym, FALSE) EXCEPT
                                 !.duplicate = IF @ = "" THEN item.sym ELSE @]
                        ELSE [Append_Key(vb, item.sym, FALSE) EXCEPT
                                 !.binder[item.sym] = vb.index]
             ELSE Add_Binding_For_Check(Append_Key(vb, item.sym, TRUE),
                                        item.sym)

\* The loop over the keys that removes each one's index from the binder:
\* the binder after key k and the ones behind it, and whether an assert
\* of the loop did not hold
RECURSIVE Remove_Indexes(_, _, _, _)
Remove_Indexes(c, k, binder, duplicate) ==
    IF k > Len(c) THEN [binder |-> binder, tripped |-> FALSE]
    ELSE LET stored == binder[c[k].sym]
             ok == IF stored = 0 THEN duplicate # ""
                   ELSE IF stored > 0 THEN ~c[k].reuse
                   ELSE c[k].reuse
             rest == Remove_Indexes(c, k + 1,
                                    [binder EXCEPT ![c[k].sym] = 0],
                                    duplicate)
         IN  [binder |-> rest.binder, tripped |-> (~ok) \/ rest.tripped]

\* After the loop: without a binder the context is returned; with one, the
\* body is bound unless there was a duplicate, the indexes are removed, the
\* binder is shut down, and a duplicate is failed on.
vb_finish ==
    /\ vb.pc = "item"
    /\ vb.index > Len(vb.spec.items)
    /\ LET r == Remove_Indexes(vb.c, 1, vb.binder, vb.duplicate)
       IN  vb' =
             IF ~vb.rebinding THEN [vb EXCEPT !.pc = "returned"]
             ELSE IF vb.asserts /\ r.tripped
                THEN [vb EXCEPT !.pc = "asserted"]
             ELSE [vb EXCEPT !.binder = r.binder, !.in_effect = FALSE,
                             !.pc = IF vb.duplicate # "" THEN "failed"
                                    ELSE "returned",
                             !.why = IF vb.duplicate # "" THEN "duplicate"
                                     ELSE "none"]

InitBinder ==
    /\ IdleStack
    /\ IdleBind
    /\ IdleLet
    /\ IdleHijack
    /\ IdlePath
    /\ IdleCheck
    /\ IdleFile
    /\ loop = NoLoop
    /\ par = NoPar
    /\ vb = NoVb

otherThanVb ==
    <<stackVars, bindVars, letVars, hijackVars, pathVars, checkVars,
      fileVars, loop, par>>

NextBinder ==
    \/ \E spec \in BinderSpecs, asserts \in BOOLEAN :
          vb_initial_entry(spec, asserts) /\ UNCHANGED otherThanVb
    \/ vb_item /\ UNCHANGED otherThanVb
    \/ vb_finish /\ UNCHANGED otherThanVb

SpecBinder == InitBinder /\ [][NextBinder]_vars

\* C34: no failure is raised while the binder is in effect, and when the
\* function has returned or failed no symbol has an index in the binder.
C34_BinderIsLeftClean ==
    vb.pc \in {"returned", "failed"} =>
        /\ vb.pc = "failed" => ~vb.in_effect
        /\ \A symbol \in BinderSymbols : vb.binder[symbol] = 0

\* C35: a spec in which a quoted word is repeated, and in which no symbol
\* is given twice in another way, is accepted, with or without other
\* variables in front: the function returns the context, without an error
\* and without an assert that does not hold.
C35_RepeatedQuotedWordIsAccepted ==
    (/\ vb.pc \in {"returned", "failed", "asserted"}
     /\ vb.spec.block
     /\ \E j, k \in 1..Len(vb.spec.items) :
           /\ j < k
           /\ vb.spec.items[j].kind = "QUOTED"
           /\ vb.spec.items[k] = vb.spec.items[j]
     /\ \A j, k \in 1..Len(vb.spec.items) :
           (j < k /\ vb.spec.items[j].sym = vb.spec.items[k].sym) =>
               /\ vb.spec.items[j].kind # "WORD"
               /\ vb.spec.items[k].kind # "WORD"
     /\ Len(SelectSeq(vb.spec.items, LAMBDA it : it.kind = "BLANK")) = 0)
        => vb.pc = "returned"

\* C40: a spec with 9 blanks or fewer is not refused for its blanks, and a
\* spec with more than 9 is.
C40_NineBlanksAreAccepted ==
    (vb.pc \in {"returned", "failed", "asserted"} /\ vb.spec.items # <<>>) =>
        LET blanks == Len(SelectSeq(vb.spec.items,
                                    LAMBDA it : it.kind = "BLANK"))
        IN  (vb.why = "blanks") <=> (blanks > 9)

====
